---- MODULE Spec2Model ----
(***************************************************************************)
(* State-machine model of the SHERLOCK investigation pipeline:             *)
(*   - the compliance gate (agents/odos_guardian.py, pqms/odos.py,         *)
(*     pqms/guardian.py, pqms/metrics.py),                                 *)
(*   - the LangGraph orchestration (core/graph.py, core/graph_enhanced.py).*)
(*                                                                         *)
(* Numbers.  Confidences, drift, fidelity and RCF are Python floats in     *)
(* [0,1].  They are modelled in fixed point, in thousandths (Scale), and   *)
(* every quotient is rounded down.  All thresholds of the gate (0.05, 0.1, *)
(* 0.95, 0.99) are whole numbers of thousandths, so  x < t  and  x >= t    *)
(* give the same answer on the rounded-down value as on the exact one.     *)
(*                                                                         *)
(* Python dicts whose key set varies (compliance_report, findings) are     *)
(* functions whose DOMAIN is the key set; dict.get(k) on a missing key is  *)
(* modelled by testing  k \in DOMAIN d.                                    *)
(***************************************************************************)
EXTENDS Integers, Sequences, FiniteSets, TLC

VARIABLES
    state,        \* the InvestigationState threaded through the stages
    settings,     \* core.config.settings options the orchestrator reads
    checkpoints,  \* the checkpointer's store: thread_id -> saved checkpoint
    run,          \* the invocation of run_investigation / run_monitored_investigation in progress
    final_state,  \* what the last finished invocation returned to its caller
    gate_locals,  \* locals of the last odos_guardian process() call
    calls,        \* the invocations finished so far, as their caller saw them
    memory,       \* the history entries consolidate_memories appended, in call order
    uploads,      \* the files of the uploads directory, in iterdir order
    ledger,       \* doc_processing_ledger: <<doc_hash, investigation_id>> -> row
    ingest,       \* the state ingestion works on, and what its last run did
    quarantine,   \* the files copied to QUARANTINE_DIR
    ledger_calls, \* per ledger key, the log_doc_failed calls made so far
    extract,      \* entity extraction: the mentions found and the results of its runs
    links,        \* semantic linker: its inputs and the semantic_links of the state
    monitor,      \* ActivityMonitor: the event deque and what its callers did
    inv_store,    \* investigation_store: the files of each investigation directory
    kb,           \* long-term memory: the knowledge-base file and the threads writing it
    classify      \* classifier: the document it scored and the classification it stored

pipeline_vars == <<state, settings, checkpoints, run, final_state, gate_locals, calls, memory>>

ingest_vars == <<uploads, ledger, ingest, quarantine, ledger_calls>>

(* the variables the orchestration does not touch at its level of detail *)
analysis_vars == <<extract, links>>

(* the process-wide services: activity monitor, investigation store,
   long-term memory, and the classifier called on its own *)
service_vars == <<monitor, inv_store, kb, classify>>

non_pipeline_vars == <<ingest_vars, analysis_vars, service_vars>>

vars == <<pipeline_vars, non_pipeline_vars>>

----------------------------------------------------------------------------
(* Bounds of the model *)

MaxHyp == 2
MaxFaults == 2
MaxInvocations == 3
MaxFailedCalls == 3
MaxFiles == 2
MaxIngestRuns == 2
MaxMentions == 4
MaxExtractRuns == 2
MaxHits == 2
MaxLinkRuns == 2
MaxMixed == 3
MaxExtra == 2
MaxSaves == 2
MaxSuspicious == 3
MaxRetriesArg == 3
MaxItems == 1
MaxNeighbours == 1

(* Fixed point: 1.0 = Scale *)
Scale == 1000

EntityIds == {"e1", "e2", "e3"}
DocIds == {"d1", "d2"}

----------------------------------------------------------------------------
(* Python helpers *)

SetKey(d, k, v) == [x \in (DOMAIN d) \cup {k} |-> IF x = k THEN v ELSE d[x]]

EmptyDict == [x \in {} |-> TRUE]

(* an uploads directory, ledger and quarantine nobody has used *)
NoIngest == [ran |-> FALSE]

IngestIdle ==
    /\ uploads = <<>>
    /\ ledger = EmptyDict
    /\ ingest = NoIngest
    /\ quarantine = {}
    /\ ledger_calls = EmptyDict

(* entity extraction and semantic linking not called on their own *)
NotCalled == [ran |-> FALSE]

AnalysisIdle ==
    /\ extract = NotCalled
    /\ links = NotCalled

ServiceIdle ==
    /\ monitor = NotCalled
    /\ inv_store = NotCalled
    /\ kb = NotCalled
    /\ classify = NotCalled

NonPipelineIdle == IngestIdle /\ AnalysisIdle /\ ServiceIdle

Min(a, b) == IF a < b THEN a ELSE b
Max(a, b) == IF a > b THEN a ELSE b

RECURSIVE SumSeq(_)
SumSeq(s) == IF s = <<>> THEN 0 ELSE Head(s) + SumSeq(Tail(s))

RECURSIVE SumSet(_, _)
SumSet(S, f) ==
    IF S = {} THEN 0
    ELSE LET x == CHOOSE y \in S : TRUE IN f[x] + SumSet(S \ {x}, f)

Range(s) == {s[i] : i \in DOMAIN s}

(* A recommendation / message text: a format string and its arguments *)
Text(msg, eid, nums) == [msg |-> msg, eid |-> eid, nums |-> nums]

----------------------------------------------------------------------------
(* agents/odos_guardian.py: thresholds *)

MAX_DELTA_E_VALID == 50
MIN_FIDELITY_VALID == 990
MAX_DELTA_E_REVIEW == 100
MIN_FIDELITY_REVIEW == 950
MIN_RCF == 950

----------------------------------------------------------------------------
(* pqms/odos.py *)

OdosViolation(type, count, severity) == [type |-> type, count |-> count, severity |-> severity]

OdosResult(status, message, violations) ==
    [raised |-> FALSE, status |-> status, message |-> message, violations |-> violations]

(* validate_odos leaves through an exception: no OdosResult *)
OdosRaise(exc) ==
    [raised |-> TRUE, status |-> "RAISED", message |-> Text(exc, "", <<>>), violations |-> <<>>]

(* entity_to_docs[eid]: the evidence documents of every relationship that has
   eid as an endpoint (empty when there is none) *)
entity_to_docs(relationships, eid) ==
    UNION {r.evidence_doc_ids : r \in {q \in Range(relationships) :
               q.source_entity_id = eid \/ q.target_entity_id = eid}}

(* "not f" for a dict finding *)
FindingIsEmpty(f) == DOMAIN f = {}

(* "not doc_ids_supporting": a missing key gives None *)
NoSupportingDocs(f) ==
    IF "doc_ids_supporting" \in DOMAIN f THEN f.doc_ids_supporting = {} ELSE TRUE

(* the inner loop over entities_involved of one finding: index of the first
   unbacked entity, 0 when there is none *)
RECURSIVE FirstUnbacked(_, _, _)
FirstUnbacked(f, relationships, i) ==
    IF i > Len(f.entities_involved) THEN 0
    ELSE IF entity_to_docs(relationships, f.entities_involved[i]) = {} /\ NoSupportingDocs(f)
         THEN i
         ELSE FirstUnbacked(f, relationships, i + 1)

(* the loop "for f in findings" *)
RECURSIVE ScanFindings(_, _, _)
ScanFindings(findings, relationships, i) ==
    IF i > Len(findings)
    THEN OdosResult("VALID", Text("ODOS validation passed", "", <<>>), <<>>)
    ELSE LET f == findings[i] IN
         IF FindingIsEmpty(f) THEN ScanFindings(findings, relationships, i + 1)
         ELSE IF "entities_involved" \notin DOMAIN f
              THEN OdosRaise("'NoneType' object is not iterable")
              ELSE LET u == FirstUnbacked(f, relationships, 1) IN
                   IF u # 0
                   THEN OdosResult("NEEDS_REVIEW",
                            Text("Entity {eid} in findings without evidence in relationships or doc_ids",
                                 f.entities_involved[u], <<>>),
                            <<OdosViolation("unbacked_entity", 1, "medium")>>)
                   ELSE ScanFindings(findings, relationships, i + 1)

validate_odos_no_pii(findings, st) ==
    IF findings = <<>>
    THEN OdosResult("VALID", Text("No findings to validate", "", <<>>), <<>>)
    ELSE ScanFindings(findings, st.relationships, 1)

validate_odos(findings, st) ==
    LET compliance == st.compliance_report IN
    IF "pii_critical" \in DOMAIN compliance /\ compliance.pii_critical
    THEN OdosResult("BLOCKED", Text("PII critical: review required", "", <<>>),
                    <<OdosViolation("pii_exposure", 1, "critical")>>)
    ELSE IF findings = <<>>
    THEN OdosResult("VALID", Text("No findings to validate", "", <<>>), <<>>)
    ELSE ScanFindings(findings, st.relationships, 1)

----------------------------------------------------------------------------
(* pqms/guardian.py *)

GuardianResult(delta_e, bias_alerts) == [delta_e |-> delta_e, bias_alerts |-> bias_alerts]

(* confidences of the hypotheses, in list order *)
HypConfs(hypotheses) == [i \in DOMAIN hypotheses |-> hypotheses[i].confidence]

(* min(1.0, statistics.variance(confs) * 2): the sample variance is
   (n*sum(c^2) - sum(c)^2) / (n*(n-1)), here in thousandths, rounded down *)
TwiceVariance(confs) ==
    LET n  == Len(confs)
        s1 == SumSeq(confs)
        s2 == SumSeq([i \in DOMAIN confs |-> confs[i] * confs[i]])
    IN  Min(Scale, (2 * (n * s2 - s1 * s1)) \div (n * (n - 1) * Scale))

(* entity_counts[eid]: occurrences of eid over the hypotheses' entity lists *)
entity_counts(hypotheses, eid) ==
    SumSeq([i \in DOMAIN hypotheses |->
              Cardinality({j \in DOMAIN hypotheses[i].entities_involved :
                              hypotheses[i].entities_involved[j] = eid})])

(* the bias alerts, one per entity: the code's list, without its order *)
BiasAlerts(hypotheses) ==
    LET doc_ids == UNION {hypotheses[i].doc_ids_supporting : i \in DOMAIN hypotheses}
    IN  {eid \in EntityIds : entity_counts(hypotheses, eid) >= 3 /\ Cardinality(doc_ids) < 2}

guardian_check(st) ==
    LET num_links == Max(1, st.semantic_links)
        base      == Min(Scale, (Scale * st.contradictions) \div num_links)
        confs     == HypConfs(st.hypotheses)
        delta_e   == IF Len(confs) >= 2 THEN Max(base, TwiceVariance(confs)) ELSE base
    IN  GuardianResult(delta_e,
                       IF st.hypotheses # <<>> THEN BiasAlerts(st.hypotheses) ELSE {})

----------------------------------------------------------------------------
(* pqms/metrics.py *)

compute_fidelity_no_default(st) ==
    IF st.hypotheses = <<>>
    THEN IF st.encrypted_segments > 0
         THEN (Scale * st.decrypted_content) \div st.encrypted_segments
         ELSE 0
    ELSE 0

compute_fidelity(st) ==
    IF st.hypotheses = <<>>
    THEN IF st.encrypted_segments > 0
         THEN (Scale * st.decrypted_content) \div st.encrypted_segments
         ELSE 990
    ELSE LET ids   == UNION {Range(st.hypotheses[i].entities_involved) : i \in DOMAIN st.hypotheses}
             known == ids \cap DOMAIN st.entities
         IN  IF known = {} THEN 990
             ELSE SumSet(known, st.entities) \div Cardinality(known)

compute_rcf(st) ==
    IF Len(st.hypotheses) < 2 THEN 950
    ELSE LET num_links == Max(1, st.semantic_links)
         IN  IF st.contradictions >= num_links THEN 0
             ELSE (Scale * (num_links - st.contradictions)) \div num_links

----------------------------------------------------------------------------
(* agents/odos_guardian.py *)

RecResolvePii ==
    Text("Resolve critical ODOS violations (e.g. PII) before publishing.", "", <<>>)
RecHumanReview ==
    Text("Human review recommended: delta_e or fidelity near threshold.", "", <<>>)
RecBelowThreshold(delta_e, fidelity) ==
    Text("Delta-E {delta_e:.3f} or fidelity {fidelity:.3f} below threshold.", "", <<delta_e, fidelity>>)
RecImprove ==
    Text("Improve evidence backing or reduce contradictions before publishing.", "", <<>>)

Decision(status, recommendations) == [status |-> status, recommendations |-> recommendations]

(* lines 59-73: the status the metric thresholds give *)
ThresholdDecision_strict(delta_e, fidelity, rcf) ==
    IF delta_e < MAX_DELTA_E_VALID /\ fidelity > MIN_FIDELITY_VALID /\ rcf >= MIN_RCF
    THEN Decision("VALID", <<>>)
    ELSE IF delta_e < MAX_DELTA_E_REVIEW /\ fidelity > MIN_FIDELITY_REVIEW
    THEN Decision("NEEDS_REVIEW", <<RecHumanReview>>)
    ELSE Decision("BLOCKED", <<RecBelowThreshold(delta_e, fidelity), RecImprove>>)

ThresholdDecision(delta_e, fidelity, rcf) ==
    IF delta_e < MAX_DELTA_E_VALID /\ fidelity >= MIN_FIDELITY_VALID /\ rcf >= MIN_RCF
    THEN Decision("VALID", <<>>)
    ELSE IF delta_e < MAX_DELTA_E_REVIEW /\ fidelity >= MIN_FIDELITY_REVIEW
    THEN Decision("NEEDS_REVIEW", <<RecHumanReview>>)
    ELSE Decision("BLOCKED", <<RecBelowThreshold(delta_e, fidelity), RecImprove>>)

(* lines 74-77: ODOS NEEDS_REVIEW downgrades a VALID *)
OdosDowngrade_never(odos_result, d) == d

OdosDowngrade(odos_result, d) ==
    IF odos_result.status = "NEEDS_REVIEW" /\ d.status = "VALID"
    THEN Decision("NEEDS_REVIEW", <<odos_result.message>> \o d.recommendations)
    ELSE d

(* lines 53-77 *)
FinalDecision(odos_result, delta_e, fidelity, rcf) ==
    IF odos_result.status = "BLOCKED"
    THEN Decision("BLOCKED", <<RecResolvePii>>)
    ELSE OdosDowngrade(odos_result, ThresholdDecision(delta_e, fidelity, rcf))

(* findings = hypotheses followed by leads *)
Findings(st) == st.hypotheses \o st.leads

(* the except branch, lines 108-119; nothing of the try body has been
   written when validate_odos raises *)
guardian_except_keep_metrics(st, exc) ==
    [st EXCEPT
        !.error_log = Append(@, [prefix |-> "ODOS Guardian error", exc |-> exc]),
        !.odos_status = "NEEDS_REVIEW",
        !.compliance_report =
            SetKey(SetKey(@, "overall_status", "NEEDS_REVIEW"),
                   "recommendations", <<Text(exc, "", <<>>)>>)]

guardian_except(st, exc) ==
    [st EXCEPT
        !.error_log = Append(@, [prefix |-> "ODOS Guardian error", exc |-> exc]),
        !.odos_status = "NEEDS_REVIEW",
        !.delta_e = 100,
        !.guardian_delta_e = 100,
        !.fidelity = 0,
        !.rcf = 0,
        !.compliance_report =
            SetKey(SetKey(@, "overall_status", "NEEDS_REVIEW"),
                   "recommendations", <<Text(exc, "", <<>>)>>)]

(* the try body, lines 26-103, when nothing raises.  llm is what the optional
   narrative call yields: "none" (no API key, empty content or a caught
   exception) or "text" *)
guardian_try(st, odos_result, llm) ==
    LET guardian_result == guardian_check(st)
        fidelity == compute_fidelity(st)
        rcf      == compute_rcf(st)
        d        == FinalDecision(odos_result, guardian_result.delta_e, fidelity, rcf)
        cr0      == SetKey(SetKey(st.compliance_report, "fidelity", fidelity), "rcf", rcf)
        cr1      == IF guardian_result.bias_alerts # {}
                    THEN SetKey(cr0, "bias_alerts", guardian_result.bias_alerts) ELSE cr0
        cr2      == SetKey(SetKey(cr1, "overall_status", d.status),
                           "recommendations", d.recommendations)
        cr3      == IF llm = "text" THEN SetKey(cr2, "narrative", "narrative") ELSE cr2
    IN  [st EXCEPT
            !.odos_violations = odos_result.violations,
            !.delta_e = guardian_result.delta_e,
            !.guardian_delta_e = guardian_result.delta_e,
            !.fidelity = fidelity,
            !.rcf = rcf,
            !.odos_status = d.status,
            !.compliance_report = cr3,
            !.current_step = "odos_guardian_complete"]

(* process(state) *)
odos_guardian_process_no_except(st, llm) ==
    LET odos_result == validate_odos(Findings(st), st) IN
    IF odos_result.raised THEN st ELSE guardian_try(st, odos_result, llm)

odos_guardian_process(st, llm) ==
    LET odos_result == validate_odos(Findings(st), st) IN
    IF odos_result.raised
    THEN guardian_except(st, odos_result.message.msg)
    ELSE guardian_try(st, odos_result, llm)

(* the locals of that call which the state does not keep *)
GateLocals(st) ==
    LET odos_result == validate_odos(Findings(st), st) IN
    [ran |-> TRUE, raised |-> odos_result.raised, odos_result |-> odos_result,
     findings |-> Findings(st), before |-> st]

NoGateLocals ==
    [ran |-> FALSE, raised |-> FALSE, odos_result |-> OdosRaise("none"),
     findings |-> <<>>, before |-> EmptyDict]

LlmOutcomes == {"none", "text"}

----------------------------------------------------------------------------
(* core/state.py *)

Relationship(src, tgt, evidence) ==
    [source_entity_id |-> src, target_entity_id |-> tgt, evidence_doc_ids |-> evidence]

(* Hypothesis.model_dump(): the keys the gate reads *)
Hypothesis(id, confidence, entities, docs) ==
    [hypothesis_id |-> id, confidence |-> confidence, entities_involved |-> entities,
     doc_ids_supporting |-> docs, status |-> "under_review"]

(* create_initial_state().  Collections of which only the size is read
   downstream (document_metadata, classifications, semantic_links, contradictions,
   encrypted_segments, decrypted_content, timeline, patterns) are kept as
   their lengths. *)
create_initial_state ==
    [document_metadata |-> 0, classifications |-> 0,
     hypotheses |-> <<>>, leads |-> <<>>, relationships |-> <<>>, entities |-> EmptyDict,
     semantic_links |-> 0, contradictions |-> 0,
     encrypted_segments |-> 0, decrypted_content |-> 0,
     timeline |-> 0, patterns |-> 0, centrality_scores |-> EmptyDict,
     odos_status |-> "PENDING", odos_violations |-> <<>>,
     delta_e |-> 0, guardian_delta_e |-> 0, fidelity |-> 0, rcf |-> 0,
     compliance_report |-> EmptyDict,
     current_step |-> "initialization", error_log |-> <<>>]

----------------------------------------------------------------------------
(* States handed to the gate when it is called on its own (tests, API) *)

(* hypotheses as synthesis normalises them: every one has an entity list *)
GateHypShapes ==
    { Hypothesis("H", 0, <<>>, {}),
      Hypothesis("H", 750, <<>>, {}),
      Hypothesis("H", 1000, <<>>, {}),
      Hypothesis("H", 1000, <<"e1">>, {}),
      Hypothesis("H", 1000, <<"e1">>, {"d1"}),
      Hypothesis("H", 1000, <<"e1", "e2">>, {}),
      Hypothesis("H", 750, <<"e2">>, {"d1"}) }

RECURSIVE SeqsUpTo(_, _)
SeqsUpTo(S, n) ==
    IF n = 0 THEN {<<>>}
    ELSE LET shorter == SeqsUpTo(S, n - 1)
         IN  shorter \cup {Append(q, x) : q \in {r \in shorter : Len(r) = n - 1}, x \in S}

(* a lead as synthesis writes it (no entity list), and a finding of the shape
   tests/test_agents.py passes to validate_odos *)
SynthLead(id, priority) == [lead_id |-> id, priority |-> priority]
EntityLead == [entities_involved |-> <<"e2">>, doc_ids_supporting |-> {}]
GateLeads == { <<>>, <<SynthLead("L1", "high")>>, <<EntityLead>> }

GateRelationships == { <<>>, <<Relationship("e1", "e3", {"d1"})>> }

(* entity id -> confidence; the extractor gives 0.9 (NER) or 1.0 (regex) *)
GateEntities ==
    { [e \in S |-> IF e = "e1" THEN c1 ELSE 950] :
        S \in {{}, {"e1"}, {"e1", "e2"}}, c1 \in {900, 990, 1000} }

(* <<number of semantic links, number of contradictions>> *)
GateLinks == { <<0, 0>>, <<40, 1>>, <<20, 1>>, <<40, 3>>, <<10, 1>>, <<1, 1>>, <<1, 2>> }

(* <<encrypted segments, decrypted contents>>: read only without hypotheses *)
GateCrypto == { <<0, 0>>, <<1, 0>>, <<1, 1>>, <<2, 1>> }

GateReports == { EmptyDict, [pii_critical |-> TRUE] }

GateInput(h, l, r, e, lk, cy, cr) ==
    [create_initial_state EXCEPT
        !.hypotheses = h, !.leads = l, !.relationships = r, !.entities = e,
        !.semantic_links = lk[1], !.contradictions = lk[2],
        !.encrypted_segments = cy[1], !.decrypted_content = cy[2],
        !.compliance_report = cr,
        !.current_step = "synthesis_complete"]

Idle == [fn |-> "idle", thread |-> 0, resume |-> FALSE, next |-> "END",
         executed |-> <<>>, received |-> <<>>, raised |-> {}, faults |-> 0,
         writes |-> {}, emptied |-> FALSE,
         status |-> "idle", branch |-> "none"]

DefaultSettings == [INTERRUPT_BEFORE_ODOS |-> TRUE, CHECKPOINT_DIR |-> FALSE]

InitGate ==
    /\ \E h \in SeqsUpTo(GateHypShapes, MaxHyp), l \in GateLeads, r \in GateRelationships,
          e \in GateEntities, lk \in GateLinks, cr \in GateReports :
         \E cy \in (IF h = <<>> THEN GateCrypto ELSE {<<0, 0>>}) :
            state = GateInput(h, l, r, e, lk, cy, cr)
    /\ settings = DefaultSettings
    /\ checkpoints = EmptyDict
    /\ run = Idle
    /\ final_state = [returned |-> FALSE, values |-> EmptyDict]
    /\ gate_locals = NoGateLocals
    /\ calls = <<>>
    /\ memory = <<>>
    /\ NonPipelineIdle

(* a direct call of process(state) *)
GateCall ==
    /\ ~gate_locals.ran
    /\ \E llm \in LlmOutcomes : state' = odos_guardian_process(state, llm)
    /\ gate_locals' = GateLocals(state)
    /\ UNCHANGED <<settings, checkpoints, run, final_state, calls, memory>>
    /\ UNCHANGED non_pipeline_vars

NextGate == GateCall

SpecGate == InitGate /\ [][NextGate]_vars

----------------------------------------------------------------------------
(* Properties of the compliance gate, checked under SpecGate *)

GateRanOk == gate_locals.ran /\ ~gate_locals.raised

PiiFlagged(st) ==
    "pii_critical" \in DOMAIN st.compliance_report /\ st.compliance_report.pii_critical

(* the decision table of the specification, written on the stored metrics *)
TableValid(st) == st.delta_e < 50 /\ st.fidelity >= 990 /\ st.rcf >= 950
TableReview(st) == ~TableValid(st) /\ st.delta_e < 100 /\ st.fidelity >= 950
TableStatus(st) ==
    IF TableValid(st) THEN "VALID" ELSE IF TableReview(st) THEN "NEEDS_REVIEW" ELSE "BLOCKED"

(* C1: when the gate ran without an exception and the ODOS rules returned
   VALID (neither BLOCKED nor NEEDS_REVIEW), the overall status is VALID
   exactly when drift < 0.05, fidelity >= 0.99 and RCF >= 0.95, otherwise
   NEEDS_REVIEW exactly when drift < 0.10 and fidelity >= 0.95, otherwise
   BLOCKED; odos_status carries the same value. *)
C1_ThresholdTable ==
    (GateRanOk /\ gate_locals.odos_result.status = "VALID") =>
        LET s == state.compliance_report.overall_status IN
        /\ state.odos_status = s
        /\ (s = "VALID") <=> TableValid(state)
        /\ (s = "NEEDS_REVIEW") <=> TableReview(state)
        /\ (s = "BLOCKED") <=> (~TableValid(state) /\ ~TableReview(state))

(* a gate run with ODOS VALID that the fidelity row alone sends to NEEDS_REVIEW *)
C1_Witness ==
    /\ GateRanOk /\ gate_locals.odos_result.status = "VALID"
    /\ state.delta_e < 50 /\ state.fidelity >= 950 /\ state.fidelity < 990
    /\ state.compliance_report.overall_status = "NEEDS_REVIEW"

(* C2: if the compliance report carries the critical-PII flag when the gate
   runs, odos_status and compliance_report.overall_status are BLOCKED,
   whatever the metrics and the findings. *)
C2_PiiBlocks ==
    (gate_locals.ran /\ PiiFlagged(gate_locals.before)) =>
        /\ state.odos_status = "BLOCKED"
        /\ state.compliance_report.overall_status = "BLOCKED"

(* a flagged report with findings and metrics that would otherwise pass *)
C2_Witness ==
    /\ gate_locals.ran /\ PiiFlagged(gate_locals.before)
    /\ gate_locals.findings # <<>>
    /\ TableValid(state)
    /\ state.odos_status = "BLOCKED"

(* some finding names an entity without relationship evidence while the
   finding has no supporting documents *)
NamesUnbackedEntity(f, relationships) ==
    /\ "entities_involved" \in DOMAIN f
    /\ \E i \in DOMAIN f.entities_involved :
           entity_to_docs(relationships, f.entities_involved[i]) = {}
    /\ NoSupportingDocs(f)

(* C3: without critical PII, ODOS validation over the gate's findings returns
   NEEDS_REVIEW with one unbacked_entity violation if some finding names an
   unbacked entity, and otherwise VALID with no violations, for every finding
   shape including leads without an entity list and for no findings. *)
C3_OdosRule ==
    (gate_locals.ran /\ ~PiiFlagged(gate_locals.before)) =>
        /\ ~gate_locals.odos_result.raised
        /\ IF \E i \in DOMAIN gate_locals.findings :
                 NamesUnbackedEntity(gate_locals.findings[i], gate_locals.before.relationships)
           THEN /\ gate_locals.odos_result.status = "NEEDS_REVIEW"
                /\ gate_locals.odos_result.violations = <<OdosViolation("unbacked_entity", 1, "medium")>>
           ELSE /\ gate_locals.odos_result.status = "VALID"
                /\ gate_locals.odos_result.violations = <<>>

(* C4: when ODOS validation returns NEEDS_REVIEW and the thresholds alone give
   VALID, the final status is NEEDS_REVIEW and the ODOS message is the first
   recommendation; when the thresholds give NEEDS_REVIEW or BLOCKED, the
   status and the recommendations are the ones of the thresholds. *)
C4_OdosDowngrade ==
    (GateRanOk /\ gate_locals.odos_result.status = "NEEDS_REVIEW") =>
        LET cr == state.compliance_report
            t  == TableStatus(state)
        IN  /\ state.odos_status = cr.overall_status
            /\ t = "VALID" =>
                 /\ cr.overall_status = "NEEDS_REVIEW"
                 /\ cr.recommendations # <<>>
                 /\ Head(cr.recommendations) = gate_locals.odos_result.message
            /\ t = "NEEDS_REVIEW" =>
                 /\ cr.overall_status = "NEEDS_REVIEW"
                 /\ cr.recommendations = <<RecHumanReview>>
            /\ t = "BLOCKED" =>
                 /\ cr.overall_status = "BLOCKED"
                 /\ cr.recommendations =
                        <<RecBelowThreshold(state.delta_e, state.fidelity), RecImprove>>

(* ODOS NEEDS_REVIEW on metrics that pass every threshold *)
C4_Witness ==
    /\ GateRanOk /\ gate_locals.odos_result.status = "NEEDS_REVIEW"
    /\ TableValid(state)
    /\ state.odos_status = "NEEDS_REVIEW"
    /\ Head(state.compliance_report.recommendations).eid \in EntityIds

ExceptionIsOnlyRecommendation ==
    /\ state.odos_status = "NEEDS_REVIEW"
    /\ state.compliance_report.overall_status = "NEEDS_REVIEW"
    /\ state.compliance_report.recommendations = <<gate_locals.odos_result.message>>

(* C5 as stated: an exception inside the gate leaves status NEEDS_REVIEW,
   drift, fidelity and RCF all zero and the exception text as the only
   recommendation. *)
C5_ZeroMetrics ==
    (gate_locals.ran /\ gate_locals.raised) =>
        /\ ExceptionIsOnlyRecommendation
        /\ state.delta_e = 0 /\ state.guardian_delta_e = 0
        /\ state.fidelity = 0 /\ state.rcf = 0

(* C5 amended: an exception inside the gate leaves status NEEDS_REVIEW,
   fidelity and RCF zero, drift 0.1 and the exception text as the only
   recommendation. *)
C5_ExceptionPath ==
    (gate_locals.ran /\ gate_locals.raised) =>
        /\ ExceptionIsOnlyRecommendation
        /\ state.delta_e = 100 /\ state.guardian_delta_e = 100
        /\ state.fidelity = 0 /\ state.rcf = 0

(* the gate raised on a lead that has no entity list *)
C5_Witness ==
    /\ gate_locals.ran /\ gate_locals.raised
    /\ \E i \in DOMAIN gate_locals.findings :
           "entities_involved" \notin DOMAIN gate_locals.findings[i]
    /\ Len(state.error_log) = 1
    /\ state.odos_status = "NEEDS_REVIEW"

----------------------------------------------------------------------------
(* The stages before the gate.  What a stage computes from the documents is
   the work of external collaborators (parsers, NER, vector store, graph
   store); the model draws it from small sets and keeps the control flow of
   each process(): the try body, its early returns and its except clause. *)

(* "except Exception as e: state['error_log'] = state.get('error_log', []) + [...]" *)
StageCatch_silent(st, prefix, exc) == st

StageCatch(st, prefix, exc) ==
    [st EXCEPT !.error_log = Append(@, [prefix |-> prefix, exc |-> exc])]

StageOutcomes == {"ok", "raise"}

(* agents/ingestion.py: DocumentIngestionAgent.process *)
ingestion_process(st, outcome) ==
    CASE outcome = "raise"    -> StageCatch(st, "Ingestion error", "error")
      [] outcome = "no_files" -> StageCatch(st, "No files to ingest", "")
      [] OTHER -> [st EXCEPT !.document_metadata = 2, !.current_step = "ingestion_complete"]

(* agents/classifier.py: DocumentClassifierAgent.process *)
classifier_process(st, outcome) ==
    IF outcome = "raise" THEN StageCatch(st, "Classification error", "error")
    ELSE [st EXCEPT !.classifications = st.document_metadata,
                    !.current_step = "classification_complete"]

(* what NER and the regexes can find: <<entities, relationships>> *)
ExtractOutputs(st) ==
    { <<EmptyDict, <<>> >>,
      <<[e \in {"e1"} |-> 1000], <<>> >>,
      <<[e \in {"e1", "e2"} |-> IF e = "e1" THEN 1000 ELSE 900],
        <<Relationship("e1", "e2", {"d1"})>> >> }

(* agents/entity_extractor.py: EntityExtractionAgent.process *)
entity_process(st, outcome, out) ==
    IF outcome = "raise" THEN StageCatch(st, "Entity extraction error", "error")
    ELSE IF st.document_metadata = 0 THEN st
    ELSE [st EXCEPT !.entities = out[1], !.relationships = out[2],
                    !.current_step = "entity_extraction_complete"]

(* <<encrypted segments, decrypted contents>> the detectors can yield *)
CryptoOutputs(st) == IF st.document_metadata = 0 THEN {<<0, 0>>} ELSE {<<0, 0>>, <<1, 0>>}

(* agents/cryptanalysis_agent.py: CryptanalysisHunterAgent.process *)
cryptanalysis_process(st, outcome, out) ==
    IF outcome = "raise" THEN StageCatch(st, "Cryptanalysis error", "error")
    ELSE [st EXCEPT !.encrypted_segments = out[1], !.decrypted_content = out[2],
                    !.current_step = "cryptanalysis_complete"]

(* <<links, contradictions>> the vector store and the rules can yield *)
LinkOutputs(st) == {<<0, 0>>, <<1, 1>>}

(* agents/semantic_linker.py: SemanticLinkerAgent.process *)
semantic_process(st, outcome, out) ==
    IF outcome = "raise" THEN StageCatch(st, "Semantic linking error", "error")
    ELSE IF st.document_metadata < 2
         THEN [st EXCEPT !.current_step = "semantic_linking_complete"]
         ELSE [st EXCEPT !.semantic_links = out[1], !.contradictions = out[2],
                         !.current_step = "semantic_linking_complete"]

EventOutputs(st) == IF st.document_metadata = 0 THEN {0} ELSE {0, 1}

(* agents/timeline.py: TimelineReconstructorAgent.process *)
timeline_process(st, outcome, out) ==
    IF outcome = "raise" THEN StageCatch(st, "Timeline error", "error")
    ELSE [st EXCEPT !.timeline = out, !.current_step = "timeline_complete"]

PatternOutputs(st) == IF st.document_metadata = 0 THEN {0} ELSE {0, 1}

(* agents/pattern_recognition.py: PatternRecognitionAgent.process; the
   patterns it appends are Pattern objects *)
pattern_process(st, outcome, out) ==
    IF outcome = "raise" THEN StageCatch(st, "Pattern recognition error", "error")
    ELSE [st EXCEPT !.patterns = out, !.current_step = "pattern_recognition_complete"]

(* centrality scores the graph store can return (empty when analytics fail) *)
CentralityOutputs(st) ==
    {EmptyDict} \cup
    (IF DOMAIN st.entities = {} THEN {}
     ELSE {[e \in DOMAIN st.entities |-> IF e = "e1" THEN 500 ELSE 250]})

(* knowledge_graph/graph_builder.py: KnowledgeGraphBuilder.process *)
knowledge_graph_process(st, outcome, out) ==
    IF outcome = "raise" THEN StageCatch(st, "Knowledge graph error", "error")
    ELSE [st EXCEPT !.centrality_scores = out, !.current_step = "knowledge_graph_complete"]

(* sorted(centrality.items(), key=lambda x: -x[1]) *)
RECURSIVE SortByScore(_)
SortByScore(c) ==
    IF DOMAIN c = {} THEN <<>>
    ELSE LET top == CHOOSE e \in DOMAIN c : \A o \in DOMAIN c : c[o] <= c[e]
         IN  <<top>> \o SortByScore([e \in (DOMAIN c) \ {top} |-> c[e]])

HypId(i) == CASE i = 1 -> "H1" [] i = 2 -> "H2" [] i = 3 -> "H3" [] i = 4 -> "H4" [] OTHER -> "H5"

(* synthesis.py lines 119-136: one hypothesis per top central entity *)
CentralityHypotheses(st) ==
    LET top == SubSeq(SortByScore(st.centrality_scores), 1,
                      Min(5, Cardinality(DOMAIN st.centrality_scores)))
    IN  [i \in DOMAIN top |->
            Hypothesis(HypId(i), Min(Scale, 2 * st.centrality_scores[top[i]]), <<top[i]>>, {})]

(* synthesis.py lines 143-146 *)
SynthesisLeads(st) ==
    LET l1 == IF st.leads = <<>> /\ st.timeline > 0 THEN <<SynthLead("L1", "high")>> ELSE st.leads
    IN  IF st.semantic_links > 0 THEN Append(l1, SynthLead("L2", "medium")) ELSE l1

(* agents/synthesis.py: IntelligenceSynthesisAgent.process.  With no
   hypotheses and some patterns, line 104 calls p.get on a Pattern object:
   AttributeError before anything is written.  outcome "raise" is a failure
   while the report files are written, after hypotheses and leads are set. *)
synthesis_process(st, outcome) ==
    IF st.hypotheses = <<>> /\ st.patterns > 0
    THEN StageCatch(st, "Synthesis error", "'Pattern' object has no attribute 'get'")
    ELSE LET hyps == IF st.hypotheses = <<>> /\ DOMAIN st.centrality_scores # {}
                     THEN CentralityHypotheses(st) ELSE st.hypotheses
             written == [st EXCEPT !.hypotheses = hyps, !.leads = SynthesisLeads(st)]
         IN  IF outcome = "raise" THEN StageCatch(written, "Synthesis error", "error")
             ELSE [written EXCEPT !.current_step = "synthesis_complete"]

----------------------------------------------------------------------------
(* core/graph.py, core/graph_enhanced.py: the workflow *)

NodeOrder ==
    << "ingest_documents", "classify_documents", "extract_entities",
       "cryptanalysis_hunter", "semantic_linker", "timeline",
       "pattern_recognition", "build_knowledge_graph", "synthesis", "odos_guardian" >>

Nodes == Range(NodeOrder)

EntryPoint == "ingest_documents"

(* workflow.add_edge(a, b), in both graphs *)
Edge_skip(n) ==
    CASE n = "ingest_documents"      -> "classify_documents"
      [] n = "classify_documents"    -> "extract_entities"
      [] n = "extract_entities"      -> "cryptanalysis_hunter"
      [] n = "cryptanalysis_hunter"  -> "semantic_linker"
      [] n = "semantic_linker"       -> "pattern_recognition"
      [] n = "timeline"              -> "pattern_recognition"
      [] n = "pattern_recognition"   -> "build_knowledge_graph"
      [] n = "build_knowledge_graph" -> "synthesis"
      [] n = "synthesis"             -> "odos_guardian"

Edge(n) ==
    CASE n = "ingest_documents"      -> "classify_documents"
      [] n = "classify_documents"    -> "extract_entities"
      [] n = "extract_entities"      -> "cryptanalysis_hunter"
      [] n = "cryptanalysis_hunter"  -> "semantic_linker"
      [] n = "semantic_linker"       -> "timeline"
      [] n = "timeline"              -> "pattern_recognition"
      [] n = "pattern_recognition"   -> "build_knowledge_graph"
      [] n = "build_knowledge_graph" -> "synthesis"
      [] n = "synthesis"             -> "odos_guardian"

(* _after_guardian_route *)
after_guardian_route_report(st) ==
    IF st.odos_status = "BLOCKED" THEN "blocked" ELSE "report"

after_guardian_route(st) ==
    IF st.odos_status = "VALID" THEN "report"
    ELSE IF st.odos_status = "BLOCKED" THEN "blocked"
    ELSE "refinement"

(* add_conditional_edges(..., {"report": END, "refinement": END, "blocked": END}) *)
BranchTarget(branch) ==
    CASE branch = "report" -> "END" [] branch = "refinement" -> "END" [] branch = "blocked" -> "END"

(* create_sherlock_graph compiles with a checkpointer (SqliteSaver under
   CHECKPOINT_DIR, else a new MemorySaver) and, when INTERRUPT_BEFORE_ODOS,
   interrupt_before=["odos_guardian"]; create_monitored_graph compiles with
   neither *)
HasCheckpointer(r) == r.fn = "run_investigation"

InterruptBefore(r) ==
    IF r.fn = "run_investigation" /\ settings.INTERRUPT_BEFORE_ODOS
    THEN {"odos_guardian"} ELSE {}

(* the store the compiled graph sees: a MemorySaver is created empty by every
   create_sherlock_graph call, the SQLite file outlives it *)
OpenCheckpointer == IF settings.CHECKPOINT_DIR THEN checkpoints ELSE EmptyDict

Checkpoint(values, next) == [values |-> values, next |-> next]

SaveCheckpoint(r, values, next) ==
    IF HasCheckpointer(r) THEN SetKey(checkpoints, r.thread, Checkpoint(values, next))
    ELSE checkpoints

(* the graph pauses before a node of interrupt_before, except on the step
   that resumes from that very pause *)
Interrupting ==
    /\ run.next \in InterruptBefore(run)
    /\ ~(run.resume /\ run.executed = <<>>)

CanRun(n) == run.status = "running" /\ run.next = n /\ ~Interrupting

(* injected failures of a stage body are bounded per invocation *)
MayFail(outcome) == outcome = "raise" => run.faults < MaxFaults

(* the output fields node n assigned on the way from st to st2, bookkeeping
   (current_step, error_log) aside: the state[...] = ... lines its process()
   reached *)
StageWrites(n, st, st2) ==
    CASE n = "ingest_documents" ->
            IF st2.current_step = "ingestion_complete"
            THEN {"processed_docs", "document_metadata", "extracted_text",
                  "raw_documents", "cryptography_findings"}
            ELSE {}
      [] n = "classify_documents" ->
            IF st2.current_step = "classification_complete"
            THEN {"classifications"} \cup
                 (IF st2.document_metadata > 0 THEN {"document_metadata"} ELSE {})
            ELSE {}
      [] n = "extract_entities" ->
            IF st2.current_step = "entity_extraction_complete"
            THEN {"entities", "entity_registry", "relationships"} ELSE {}
      [] n = "cryptanalysis_hunter" ->
            IF st2.current_step = "cryptanalysis_complete"
            THEN {"encrypted_segments", "decrypted_content", "cryptography_findings"}
            ELSE {}
      [] n = "semantic_linker" ->
            IF st2.current_step = "semantic_linking_complete"
            THEN {"semantic_links", "contradictions"} \cup
                 (IF st2.document_metadata < 2 THEN {} ELSE {"narrative_threads"})
            ELSE {}
      [] n = "timeline" ->
            IF st2.current_step = "timeline_complete"
            THEN {"timeline", "temporal_anomalies"} ELSE {}
      [] n = "pattern_recognition" ->
            IF st2.current_step = "pattern_recognition_complete"
            THEN {"patterns", "outliers", "anomalies"} ELSE {}
      [] n = "build_knowledge_graph" ->
            IF st2.current_step = "knowledge_graph_complete"
            THEN {"graph_metadata", "centrality_scores", "communities"} ELSE {}
      [] n = "synthesis" ->
            IF st2.current_step = "synthesis_complete"
            THEN {"hypotheses", "leads", "report_summary"}
            ELSE IF Len(st2.error_log) > Len(st.error_log)
                    /\ st2.error_log[Len(st2.error_log)].exc = "error"
                 THEN {"hypotheses", "leads", "report_summary"}
                 ELSE {}
      [] n = "odos_guardian" ->
            {"odos_violations", "delta_e", "guardian_delta_e", "fidelity", "rcf",
             "odos_status", "compliance_report"}

(* a collection that held something in st holds nothing in st2 *)
Emptied(st, st2) ==
    \/ \E f \in {"document_metadata", "classifications", "semantic_links",
                 "contradictions", "encrypted_segments", "decrypted_content",
                 "timeline", "patterns"} : st[f] > 0 /\ st2[f] = 0
    \/ \E f \in {"hypotheses", "leads", "relationships", "odos_violations", "error_log"} :
          st[f] # <<>> /\ st2[f] = <<>>
    \/ \E f \in {"entities", "centrality_scores", "compliance_report"} :
          DOMAIN st[f] # {} /\ DOMAIN st2[f] = {}

(* the runtime after node n returned st2: record the step, follow the edge,
   write the checkpoint.  threw: the body raised and the stage's except
   clause ran *)
NodeReturned(n, st2, threw, injected) ==
    LET branch == IF n = "odos_guardian" THEN after_guardian_route(st2) ELSE run.branch
        nxt    == IF n = "odos_guardian" THEN BranchTarget(branch) ELSE Edge(n)
    IN  /\ state' = st2
        /\ run' = [run EXCEPT !.executed = Append(@, n),
                              !.received = Append(@, state.current_step),
                              !.raised = IF threw THEN @ \cup {n} ELSE @,
                              !.faults = IF injected THEN @ + 1 ELSE @,
                              !.writes = @ \cup {<<f, n>> : f \in StageWrites(n, state, st2)},
                              !.emptied = @ \/ Emptied(state, st2),
                              !.next = nxt,
                              !.branch = branch]
        /\ checkpoints' = SaveCheckpoint(run, st2, nxt)
        /\ UNCHANGED <<settings, final_state, calls, memory>>
        /\ UNCHANGED non_pipeline_vars

IngestDocuments ==
    /\ CanRun("ingest_documents")
    /\ \E outcome \in StageOutcomes \cup {"no_files"} :
        /\ MayFail(outcome)
        /\ NodeReturned("ingest_documents", ingestion_process(state, outcome),
                        outcome = "raise", outcome = "raise")
    /\ UNCHANGED gate_locals

ClassifyDocuments ==
    /\ CanRun("classify_documents")
    /\ \E outcome \in StageOutcomes :
        /\ MayFail(outcome)
        /\ NodeReturned("classify_documents", classifier_process(state, outcome),
                        outcome = "raise", outcome = "raise")
    /\ UNCHANGED gate_locals

ExtractEntities ==
    /\ CanRun("extract_entities")
    /\ \E outcome \in StageOutcomes, out \in ExtractOutputs(state) :
        /\ MayFail(outcome)
        /\ NodeReturned("extract_entities", entity_process(state, outcome, out),
                        outcome = "raise", outcome = "raise")
    /\ UNCHANGED gate_locals

CryptanalysisHunter ==
    /\ CanRun("cryptanalysis_hunter")
    /\ \E outcome \in StageOutcomes, out \in CryptoOutputs(state) :
        /\ MayFail(outcome)
        /\ NodeReturned("cryptanalysis_hunter", cryptanalysis_process(state, outcome, out),
                        outcome = "raise", outcome = "raise")
    /\ UNCHANGED gate_locals

SemanticLinker ==
    /\ CanRun("semantic_linker")
    /\ \E outcome \in StageOutcomes, out \in LinkOutputs(state) :
        /\ MayFail(outcome)
        /\ NodeReturned("semantic_linker", semantic_process(state, outcome, out),
                        outcome = "raise", outcome = "raise")
    /\ UNCHANGED gate_locals

Timeline ==
    /\ CanRun("timeline")
    /\ \E outcome \in StageOutcomes, out \in EventOutputs(state) :
        /\ MayFail(outcome)
        /\ NodeReturned("timeline", timeline_process(state, outcome, out),
                        outcome = "raise", outcome = "raise")
    /\ UNCHANGED gate_locals

PatternRecognition ==
    /\ CanRun("pattern_recognition")
    /\ \E outcome \in StageOutcomes, out \in PatternOutputs(state) :
        /\ MayFail(outcome)
        /\ NodeReturned("pattern_recognition", pattern_process(state, outcome, out),
                        outcome = "raise", outcome = "raise")
    /\ UNCHANGED gate_locals

BuildKnowledgeGraph ==
    /\ CanRun("build_knowledge_graph")
    /\ \E outcome \in StageOutcomes, out \in CentralityOutputs(state) :
        /\ MayFail(outcome)
        /\ NodeReturned("build_knowledge_graph", knowledge_graph_process(state, outcome, out),
                        outcome = "raise", outcome = "raise")
    /\ UNCHANGED gate_locals

Synthesis ==
    /\ CanRun("synthesis")
    /\ \E outcome \in StageOutcomes :
        /\ MayFail(outcome)
        /\ LET st2 == synthesis_process(state, outcome)
           IN  NodeReturned("synthesis", st2,
                            Len(st2.error_log) > Len(state.error_log), outcome = "raise")
    /\ UNCHANGED gate_locals

OdosGuardian ==
    /\ CanRun("odos_guardian")
    /\ \E llm \in LlmOutcomes :
         NodeReturned("odos_guardian", odos_guardian_process(state, llm),
                      GateLocals(state).raised, FALSE)
    /\ gate_locals' = GateLocals(state)

(* consolidate_memories: the history entry it appends for the investigation;
   call is the invocation that made it *)
consolidate_memories(investigation_id, call, st) ==
    [investigation_id |-> investigation_id, call |-> call,
     current_step |-> st.current_step, odos_status |-> st.odos_status]

(* who consolidates after invoke returned: run_investigation when the state
   says odos_guardian_complete, api _run_investigation_and_save always,
   run_monitored_investigation itself never *)
Consolidates(fn, st) ==
    \/ fn = "run_investigation" /\ st.current_step = "odos_guardian_complete"
    \/ fn = "_run_investigation_and_save"

(* run_investigation lines 113-122 and run_monitored_investigation: invoke
   has returned values *)
InvokeReturned(status) ==
    /\ final_state' = [returned |-> TRUE, values |-> state]
    /\ memory' = IF Consolidates(run.fn, state)
                 THEN Append(memory, consolidate_memories(run.thread, Len(calls) + 1, state))
                 ELSE memory
    /\ calls' = Append(calls, [fn |-> run.fn, thread |-> run.thread,
                               resume |-> run.resume, status |-> status])
    /\ run' = [run EXCEPT !.status = status]
    /\ UNCHANGED <<state, settings, checkpoints, gate_locals>>
    /\ UNCHANGED non_pipeline_vars

(* interrupt_before: invoke returns the state at the pause *)
InterruptBeforeGate ==
    /\ run.status = "running" /\ Interrupting
    /\ InvokeReturned("interrupted")

(* the graph reached END *)
RunCompleted ==
    /\ run.status = "running" /\ run.next = "END"
    /\ InvokeReturned("completed")

NewRun(fn, thread, resume, next) ==
    [Idle EXCEPT !.fn = fn, !.thread = thread, !.resume = resume, !.next = next,
                 !.status = "running"]

NotReturned == [returned |-> FALSE, values |-> EmptyDict]

(* a new run shares nothing with earlier invocations (new uuid thread, new
   initial state): the model starts with one and follows it with resumes *)
RunInvestigation ==
    /\ run.status = "idle" /\ calls = <<>>
    /\ run' = NewRun("run_investigation", 1, FALSE, EntryPoint)
    /\ state' = create_initial_state
    /\ checkpoints' = OpenCheckpointer
    /\ final_state' = NotReturned
    /\ gate_locals' = NoGateLocals
    /\ UNCHANGED <<settings, calls, memory>>
    /\ UNCHANGED non_pipeline_vars

RunMonitoredInvestigation ==
    /\ run.status = "idle" /\ calls = <<>>
    /\ run' = NewRun("run_monitored_investigation", 0, FALSE, EntryPoint)
    /\ state' = create_initial_state
    /\ final_state' = NotReturned
    /\ gate_locals' = NoGateLocals
    /\ UNCHANGED <<settings, checkpoints, calls, memory>>
    /\ UNCHANGED non_pipeline_vars

(* api/main.py _run_investigation_and_save: the monitored run for a stored
   investigation, followed by save and consolidation *)
RunInvestigationAndSave ==
    /\ run.status = "idle" /\ calls = <<>>
    /\ run' = NewRun("_run_investigation_and_save", 2, FALSE, EntryPoint)
    /\ state' = create_initial_state
    /\ final_state' = NotReturned
    /\ gate_locals' = NoGateLocals
    /\ UNCHANGED <<settings, checkpoints, calls, memory>>
    /\ UNCHANGED non_pipeline_vars

ThreadIds == {1}

(* run_investigation(thread_id=t): invoke(None) continues the thread's
   checkpoint; with no checkpoint for t there is no input and invoke raises *)
ResumeInvestigation ==
    /\ run.status \in {"completed", "interrupted", "raised"}
    /\ Len(calls) < MaxInvocations
    /\ \E t \in ThreadIds :
        LET store == OpenCheckpointer IN
        /\ checkpoints' = store
        /\ IF t \in DOMAIN store
           THEN /\ run' = NewRun("run_investigation", t, TRUE, store[t].next)
                /\ state' = store[t].values
                /\ final_state' = NotReturned
                /\ gate_locals' = NoGateLocals
                /\ UNCHANGED <<calls, memory>>
           ELSE /\ run' = [NewRun("run_investigation", t, TRUE, "END") EXCEPT !.status = "raised"]
                /\ final_state' = NotReturned
                /\ calls' = Append(calls, [fn |-> "run_investigation", thread |-> t,
                                           resume |-> TRUE, status |-> "raised"])
                /\ UNCHANGED <<state, gate_locals, memory>>
    /\ UNCHANGED settings
    /\ UNCHANGED non_pipeline_vars

Init ==
    /\ settings \in [INTERRUPT_BEFORE_ODOS : BOOLEAN, CHECKPOINT_DIR : BOOLEAN]
    /\ state = create_initial_state
    /\ checkpoints = EmptyDict
    /\ run = Idle
    /\ final_state = NotReturned
    /\ gate_locals = NoGateLocals
    /\ calls = <<>>
    /\ memory = <<>>
    /\ NonPipelineIdle

Next ==
    \/ RunInvestigation
    \/ RunMonitoredInvestigation
    \/ RunInvestigationAndSave
    \/ ResumeInvestigation
    \/ IngestDocuments
    \/ ClassifyDocuments
    \/ ExtractEntities
    \/ CryptanalysisHunter
    \/ SemanticLinker
    \/ Timeline
    \/ PatternRecognition
    \/ BuildKnowledgeGraph
    \/ Synthesis
    \/ OdosGuardian
    \/ InterruptBeforeGate
    \/ RunCompleted

Spec == Init /\ [][Next]_vars

(* ------------------------------------------------------------------ *)
(* Properties of the orchestration                                     *)

Statuses == {"VALID", "NEEDS_REVIEW", "BLOCKED"}

Returned == final_state.returned

FirstNine == SubSeq(NodeOrder, 1, 9)

GateRanInRun == run.executed # <<>> /\ run.executed[Len(run.executed)] = "odos_guardian"

WellFormed(values) ==
    /\ "current_step" \in DOMAIN values
    /\ "error_log" \in DOMAIN values
    /\ "compliance_report" \in DOMAIN values
    /\ "overall_status" \in DOMAIN values.compliance_report
    /\ values.compliance_report.overall_status \in Statuses
    /\ values.compliance_report.overall_status # "VALID" =>
          /\ "recommendations" \in DOMAIN values.compliance_report
          /\ values.compliance_report.recommendations # <<>>

(* C6, as stated: every state a run returns under the default configuration
   has current_step, an error_log, an overall_status among VALID,
   NEEDS_REVIEW, BLOCKED, and recommendations when that status is not VALID *)
C6_ReturnedStateWellFormed ==
    (Returned /\ settings = DefaultSettings) => WellFormed(final_state.values)

(* C6, amended: every state returned by a run that was not paused by the
   human-in-the-loop interrupt (it reached the end of the pipeline) has
   current_step, an error_log, an overall_status among VALID, NEEDS_REVIEW,
   BLOCKED, and a non-empty recommendations list when that status is not
   VALID *)
C6_CompletedStateWellFormed ==
    (Returned /\ run.status = "completed") => WellFormed(final_state.values)

C6_Witness ==
    /\ Returned /\ run.status = "completed" /\ settings = DefaultSettings
    /\ gate_locals.raised
    /\ final_state.values.compliance_report.overall_status = "NEEDS_REVIEW"

LastCall == calls[Len(calls)]

ResumedAfterInterrupt ==
    /\ Len(calls) >= 2
    /\ run.status # "running"
    /\ LastCall.resume
    /\ calls[Len(calls) - 1].status = "interrupted"
    /\ calls[Len(calls) - 1].thread = LastCall.thread

(* C7: with human-in-the-loop enabled a run executes the nine stages before
   the gate and returns with odos_status PENDING, and a resume of that thread
   executes the gate, and only the gate, exactly once and terminates *)
C7_InterruptAndResume ==
    /\ (Returned /\ ~run.resume /\ run.fn = "run_investigation"
            /\ settings.INTERRUPT_BEFORE_ODOS) =>
          /\ run.status = "interrupted"
          /\ run.executed = FirstNine
          /\ final_state.values.odos_status = "PENDING"
    /\ (ResumedAfterInterrupt /\ settings.INTERRUPT_BEFORE_ODOS) =>
          /\ run.status = "completed"
          /\ run.executed = << "odos_guardian" >>

IndexOf(n) == CHOOSE i \in 1..Len(NodeOrder) : NodeOrder[i] = n

StepOf(n) ==
    CASE n = "ingest_documents"      -> "ingestion_complete"
      [] n = "classify_documents"    -> "classification_complete"
      [] n = "extract_entities"      -> "entity_extraction_complete"
      [] n = "cryptanalysis_hunter"  -> "cryptanalysis_complete"
      [] n = "semantic_linker"       -> "semantic_linking_complete"
      [] n = "timeline"              -> "timeline_complete"
      [] n = "pattern_recognition"   -> "pattern_recognition_complete"
      [] n = "build_knowledge_graph" -> "knowledge_graph_complete"
      [] n = "synthesis"             -> "synthesis_complete"
      [] n = "odos_guardian"         -> "odos_guardian_complete"

StepsBefore(n) ==
    {"initialization"} \cup {StepOf(NodeOrder[j]) : j \in 1..(IndexOf(n) - 1)}

(* C8: the stages of a run execute in the fixed order, each at most once,
   each after its predecessor returned and on the state its predecessors
   left; a fresh run starts at ingestion *)
C8_StageOrder ==
    /\ \A k \in 1..Len(run.executed) : run.executed[k] \in Nodes
    /\ \A k \in 2..Len(run.executed) :
          IndexOf(run.executed[k]) = IndexOf(run.executed[k - 1]) + 1
    /\ (~run.resume /\ run.executed # <<>>) => run.executed[1] = EntryPoint
    /\ \A k \in 1..Len(run.executed) :
          run.received[k] \in StepsBefore(run.executed[k])
    /\ (run.status = "running" /\ run.executed # <<>>
          /\ run.executed[Len(run.executed)] # "odos_guardian") =>
          run.next = NodeOrder[IndexOf(run.executed[Len(run.executed)]) + 1]

C8_Witness ==
    /\ run.status = "completed" /\ ~run.resume
    /\ run.executed = NodeOrder
    /\ run.received[10] = "synthesis_complete"

(* C9: a stage whose body raised has appended to error_log and returned, the
   stages after it still execute, and a run that started ends only after the
   gate or at the human-in-the-loop interrupt *)
C9_ExceptionsDoNotStop ==
    /\ Cardinality(run.raised) <= Len(state.error_log)
    /\ (run.status = "running" /\ run.next = "END" /\ ~run.resume) => GateRanInRun
    /\ (run.status = "completed" /\ ~run.resume) => run.executed = NodeOrder
    /\ run.status = "interrupted" =>
          /\ settings.INTERRUPT_BEFORE_ODOS
          /\ run.next = "odos_guardian"
    /\ (run.status # "running" /\ run.executed # <<>>) =>
          run.status \in {"completed", "interrupted"}

C9_Witness ==
    /\ run.status = "completed"
    /\ run.executed = NodeOrder
    /\ {"ingest_documents", "synthesis"} \subseteq run.raised
    /\ Len(state.error_log) >= 2

(* C10: the branch after the gate is report exactly for VALID, blocked exactly
   for BLOCKED, refinement exactly for NEEDS_REVIEW, and every branch ends the
   run: the gate is the last stage executed *)
C10_TerminalBranch ==
    ("odos_guardian" \in Range(run.executed)) =>
        /\ GateRanInRun
        /\ run.next = "END"
        /\ state.odos_status \in Statuses
        /\ run.branch = "report" <=> state.odos_status = "VALID"
        /\ run.branch = "blocked" <=> state.odos_status = "BLOCKED"
        /\ run.branch = "refinement" <=> state.odos_status = "NEEDS_REVIEW"

C10_Witness ==
    /\ run.status = "completed" /\ GateRanInRun
    /\ run.branch = "refinement" /\ state.odos_status = "NEEDS_REVIEW"

ConsolidationsOf(call) ==
    Cardinality({k \in 1..Len(memory) : memory[k].call = call})

(* the run started on an uploads directory without files (ingestion.py
   lines 155-159 leave this entry and return) *)
EmptyUploads ==
    /\ ~run.resume
    /\ run.executed # <<>> /\ run.executed[1] = "ingest_documents"
    /\ state.error_log # <<>> /\ state.error_log[1].prefix = "No files to ingest"

(* C21: a run on an empty uploads directory that is not paused before the
   gate runs all ten stages, returns a state whose documents,
   classifications, entities, relationships, links, timeline, patterns,
   hypotheses and leads are empty, and ends with compliance status VALID *)
C21_EmptyRun ==
    (EmptyUploads /\ InterruptBefore(run) = {}) =>
        /\ run.status # "raised"
        /\ run.status = "completed" =>
            /\ run.executed = NodeOrder
            /\ final_state.values = state
            /\ state.document_metadata = 0 /\ state.classifications = 0
            /\ state.entities = EmptyDict /\ state.relationships = <<>>
            /\ state.semantic_links = 0 /\ state.timeline = 0 /\ state.patterns = 0
            /\ state.hypotheses = <<>> /\ state.leads = <<>>
            /\ state.odos_status = "VALID"
            /\ state.compliance_report.overall_status = "VALID"

C21_Witness ==
    /\ EmptyUploads /\ InterruptBefore(run) = {}
    /\ run.fn = "run_investigation" /\ ~settings.INTERRUPT_BEFORE_ODOS
    /\ run.status = "completed" /\ Returned
    /\ state.fidelity = 990 /\ state.rcf = 950 /\ state.delta_e = 0

(* C23: every output field of the state is assigned by one stage only, and
   no stage empties a collection written earlier in the run *)
C23_SoleWriter ==
    /\ \A w1, w2 \in run.writes : w1[1] = w2[1] => w1[2] = w2[2]
    /\ ~run.emptied

(* the drift as the claim computes it from the state the gate received *)
ClaimedDrift(st) ==
    LET base  == (Scale * st.contradictions) \div Max(1, st.semantic_links)
        confs == HypConfs(st.hypotheses)
    IN  IF Len(confs) >= 2 THEN Max(base, TwiceVariance(confs)) ELSE base

(* hypotheses whose confidences have variance 0.5 *)
VarianceHalf(st) ==
    Len(st.hypotheses) >= 2 /\ TwiceVariance(HypConfs(st.hypotheses)) = Scale

(* C27: the drift the gate computes is contradictions / max(1, links),
   raised to max(that, min(1, 2 x variance of the hypothesis confidences))
   with two hypotheses or more; confidences of variance 0.5 give drift 1.0
   and status BLOCKED with the recommendation that names the thresholds *)
C27_Drift ==
    gate_locals.ran =>
        /\ state.delta_e = ClaimedDrift(gate_locals.before)
        /\ VarianceHalf(gate_locals.before) =>
              /\ state.delta_e = Scale
              /\ state.odos_status = "BLOCKED"
              /\ \E k \in DOMAIN state.compliance_report.recommendations :
                    state.compliance_report.recommendations[k]
                        = RecBelowThreshold(state.delta_e, state.fidelity)

(* C11: a run that completes past the compliance gate has consolidated memory
   exactly once, whatever the gate's status and also when the gate ended on
   its exception path; a run interrupted before the gate has not *)
C11_ConsolidatedOnce ==
    /\ (Returned /\ run.status = "completed" /\ GateRanInRun) =>
          ConsolidationsOf(Len(calls)) = 1
    /\ (Returned /\ run.status = "interrupted") =>
          ConsolidationsOf(Len(calls)) = 0

----------------------------------------------------------------------------
(* core/persistence.py: the processing ledger *)

STATUS_PENDING == "PENDING"
STATUS_PROCESSING == "PROCESSING"
STATUS_DONE == "DONE"
STATUS_FAILED == "FAILED"

Hashes == {"h1", "h2"}

(* "" is the id of a run without config.investigation_id *)
InvestigationIds == {"", "inv1"}

LedgerKeys == Hashes \X InvestigationIds

LedgerRow(status, retry_count) == [status |-> status, retry_count |-> retry_count]

(* INSERT ... ON CONFLICT DO UPDATE SET status: retry_count is 0 on insert
   and kept on update *)
Upsert(lg, key, status) ==
    IF key \in DOMAIN lg
    THEN [lg EXCEPT ![key].status = status]
    ELSE SetKey(lg, key, LedgerRow(status, 0))

log_doc_start(lg, doc_hash, investigation_id) ==
    Upsert(lg, <<doc_hash, investigation_id>>, STATUS_PROCESSING)

log_doc_success(lg, doc_hash, investigation_id) ==
    Upsert(lg, <<doc_hash, investigation_id>>, STATUS_DONE)

(* retry_count is 1 on insert and retry_count + 1 on update *)
log_doc_failed_no_count(lg, doc_hash, investigation_id) ==
    Upsert(lg, <<doc_hash, investigation_id>>, STATUS_FAILED)

log_doc_failed(lg, doc_hash, investigation_id) ==
    LET key == <<doc_hash, investigation_id>> IN
    IF key \in DOMAIN lg
    THEN [lg EXCEPT ![key] = LedgerRow(STATUS_FAILED, @.retry_count + 1)]
    ELSE SetKey(lg, key, LedgerRow(STATUS_FAILED, 1))

(* None when the key has no row *)
get_doc_status(lg, doc_hash, investigation_id) ==
    IF <<doc_hash, investigation_id>> \in DOMAIN lg
    THEN lg[<<doc_hash, investigation_id>>].status ELSE "None"

(* SELECT doc_hash, retry_count WHERE investigation_id = ? AND status IN
   (PENDING, FAILED) AND retry_count < ? *)
get_pending_docs(lg, investigation_id, max_retries) ==
    {<<key[1], lg[key].retry_count>> : key \in
        {k \in DOMAIN lg : /\ k[2] = investigation_id
                           /\ lg[k].status \in {STATUS_PENDING, STATUS_FAILED}
                           /\ lg[k].retry_count < max_retries}}

FailedCalls(key) == IF key \in DOMAIN ledger_calls THEN ledger_calls[key] ELSE 0

CountFailed(calls_, key) ==
    SetKey(calls_, key, (IF key \in DOMAIN calls_ THEN calls_[key] ELSE 0) + 1)

(* the ledger with nothing else in use *)
InitLedger ==
    /\ ledger = EmptyDict
    /\ ledger_calls = EmptyDict
    /\ uploads = <<>>
    /\ ingest = NoIngest
    /\ quarantine = {}
    /\ AnalysisIdle
    /\ ServiceIdle
    /\ state = create_initial_state
    /\ settings = DefaultSettings
    /\ checkpoints = EmptyDict
    /\ run = Idle
    /\ final_state = NotReturned
    /\ gate_locals = NoGateLocals
    /\ calls = <<>>
    /\ memory = <<>>

LogDocStart ==
    /\ \E key \in LedgerKeys : ledger' = log_doc_start(ledger, key[1], key[2])
    /\ UNCHANGED <<pipeline_vars, analysis_vars, service_vars, uploads, ingest, quarantine, ledger_calls>>

LogDocSuccess ==
    /\ \E key \in LedgerKeys : ledger' = log_doc_success(ledger, key[1], key[2])
    /\ UNCHANGED <<pipeline_vars, analysis_vars, service_vars, uploads, ingest, quarantine, ledger_calls>>

LogDocFailed ==
    /\ \E key \in LedgerKeys :
        /\ FailedCalls(key) < MaxFailedCalls
        /\ ledger' = log_doc_failed(ledger, key[1], key[2])
        /\ ledger_calls' = CountFailed(ledger_calls, key)
    /\ UNCHANGED <<pipeline_vars, analysis_vars, service_vars, uploads, ingest, quarantine>>

NextLedger == LogDocStart \/ LogDocSuccess \/ LogDocFailed

SpecLedger == InitLedger /\ [][NextLedger]_vars

(* C16: retry_count of a key is the number of log_doc_failed calls made for
   it (log_doc_start and log_doc_success never change it), and
   get_pending_docs returns exactly the keys of the investigation that are
   PENDING or FAILED with retry_count below max_retries *)
C16_RetryCountAndPending ==
    /\ \A key \in DOMAIN ledger : ledger[key].retry_count = FailedCalls(key)
    /\ \A key \in LedgerKeys : FailedCalls(key) > 0 => key \in DOMAIN ledger
    /\ \A inv \in InvestigationIds, max_retries \in 0..MaxRetriesArg, h \in Hashes :
          (\E n \in 0..(MaxFailedCalls + 1) : <<h, n>> \in get_pending_docs(ledger, inv, max_retries))
          <=> /\ <<h, inv>> \in DOMAIN ledger
              /\ ledger[<<h, inv>>].status \in {"PENDING", "FAILED"}
              /\ FailedCalls(<<h, inv>>) < max_retries
    /\ \A inv \in InvestigationIds, max_retries \in 0..MaxRetriesArg :
          \A p \in get_pending_docs(ledger, inv, max_retries) : p[2] = FailedCalls(<<p[1], inv>>)

C16_Witness ==
    /\ <<"h1", "inv1">> \in DOMAIN ledger /\ <<"h2", "inv1">> \in DOMAIN ledger
    /\ ledger[<<"h1", "inv1">>] = LedgerRow("FAILED", 2)
    /\ ledger[<<"h2", "inv1">>] = LedgerRow("DONE", 1)
    /\ get_pending_docs(ledger, "inv1", 3) = {<<"h1", 2>>}
    /\ get_pending_docs(ledger, "inv1", 2) = {}

----------------------------------------------------------------------------
(* agents/ingestion.py: DocumentIngestionAgent.process in detail *)

FileNames == <<"a", "b", "c", "d">>

(* what processing a file comes to: rejected before hashing (suffix not
   supported, or too large), unreadable (stat or _calculate_hash raises,
   lines 179-183, outside the per-file try), the status _process_one returns
   ("empty" is success without text), or an exception inside the per-file
   try *)
FileResults == {"rejected", "unreadable", "success", "empty", "failed", "encrypted", "raise"}

File(name, hash, result) == [name |-> name, hash |-> hash, result |-> result]

(* doc_id = file_hash[:16]; the modelled hashes differ in that prefix *)
DocId(file_hash) == CASE file_hash = "h1" -> "doc_h1" [] file_hash = "h2" -> "doc_h2"

(* DocumentMetadata(...).model_dump(), the fields the dedup logic reads *)
DocumentMetadata(doc_id, f, status) ==
    [doc_id |-> doc_id, filename |-> f.name, file_hash |-> f.hash, status |-> status]

(* lines 210-214: the text kept for the document *)
TextContent(result) == IF result \in {"success"} THEN "text" ELSE ""

(* lines 210-211: no text and not encrypted or failed *)
FinalStatus(result) == IF result = "empty" THEN "partial" ELSE result

(* the fields of the state ingestion reads and writes *)
IngestState(document_metadata, extracted_text, processed_docs, error_log, current_step) ==
    [document_metadata |-> document_metadata, extracted_text |-> extracted_text,
     processed_docs |-> processed_docs, error_log |-> error_log,
     current_step |-> current_step]

InitialIngestState == IngestState(EmptyDict, EmptyDict, <<>>, <<>>, "initialization")

(* lines 161-166 *)
ExistingHashes(document_metadata) ==
    {document_metadata[d].file_hash : d \in DOMAIN document_metadata}

(* the locals of the loop over files, with the ledger, the quarantine
   directory and the calls the loop makes *)
LoopAcc(st, lg, q, fc) ==
    [existing_hashes |-> ExistingHashes(st.document_metadata),
     document_metadata |-> st.document_metadata,
     extracted_text |-> st.extracted_text,
     processed_docs |-> st.processed_docs,
     error_log |-> st.error_log,
     ledger |-> lg, quarantine |-> q, failed_calls |-> fc,
     started |-> {}, extracted |-> {}, aborted |-> FALSE]

(* lines 204-260: the file was processed with a status *)
WriteDocument(acc, f, investigation_id, copy_ok) ==
    LET status == FinalStatus(f.result)
        doc_id == DocId(f.hash)
        key    == <<f.hash, investigation_id>>
        q      == IF status = "failed" /\ copy_ok THEN acc.quarantine \cup {f} ELSE acc.quarantine
    IN  [acc EXCEPT
            !.quarantine = q,
            !.extracted = @ \cup {f.hash},
            !.document_metadata = SetKey(@, doc_id, DocumentMetadata(doc_id, f, status)),
            !.extracted_text = SetKey(@, doc_id, TextContent(f.result)),
            !.processed_docs = Append(@, doc_id),
            !.ledger = IF status \in {"success", "partial"}
                       THEN log_doc_success(@, f.hash, investigation_id)
                       ELSE log_doc_failed(@, f.hash, investigation_id),
            !.failed_calls = IF status \in {"success", "partial"} THEN @
                             ELSE CountFailed(@, key)]

(* lines 184-186: the file's hash is already a Document of the state or was
   seen earlier in this run *)
IsDuplicate_never(acc, f) == FALSE

IsDuplicate(acc, f) == f.hash \in acc.existing_hashes

(* lines 187-189 *)
LedgerDone_never(acc, f, investigation_id) == FALSE

LedgerDone(acc, f, investigation_id) ==
    get_doc_status(acc.ledger, f.hash, investigation_id) = STATUS_DONE

(* lines 176-264: one iteration of the loop over files *)
IngestFile(acc, f, investigation_id, copy_ok) ==
    IF f.result = "rejected" THEN acc
    ELSE IF f.result = "unreadable" THEN [acc EXCEPT !.aborted = TRUE]
    ELSE IF IsDuplicate(acc, f) THEN acc
    ELSE IF LedgerDone(acc, f, investigation_id) THEN acc
    ELSE LET a1 == [acc EXCEPT
                      !.existing_hashes = @ \cup {f.hash},
                      !.ledger = log_doc_start(@, f.hash, investigation_id),
                      !.started = @ \cup {f.hash}]
         IN  IF f.result = "raise"
             THEN [a1 EXCEPT
                      !.ledger = log_doc_failed(@, f.hash, investigation_id),
                      !.failed_calls = CountFailed(@, <<f.hash, investigation_id>>),
                      !.error_log = Append(@, [prefix |-> "Ingestion doc error", exc |-> f.name])]
             ELSE WriteDocument(a1, f, investigation_id, copy_ok)

RECURSIVE IngestFiles(_, _, _, _, _)
IngestFiles(acc, files, i, investigation_id, copy_ok) ==
    IF i > Len(files) \/ acc.aborted THEN acc
    ELSE IngestFiles(IngestFile(acc, files[i], investigation_id, copy_ok),
                     files, i + 1, investigation_id, copy_ok)

(* lines 273-275: an exception outside the per-file try ends the loop; the
   loop's local collections are dropped, the state keeps the entries the
   per-file handler added to error_log and gets one more *)
ingestion_except(st, acc) ==
    [acc EXCEPT
        !.document_metadata = st.document_metadata,
        !.extracted_text = st.extracted_text,
        !.processed_docs = st.processed_docs,
        !.error_log = Append(@, [prefix |-> "Ingestion error", exc |-> ""])]

(* process(state) on the directory files; lines 155-159 return early on an
   empty directory.  The result is the loop's final locals, whose state
   fields lines 266-271 write back *)
ingestion_run(st, files, lg, q, fc, investigation_id, copy_ok) ==
    IF files = <<>>
    THEN [LoopAcc(st, lg, q, fc) EXCEPT
             !.error_log = Append(@, [prefix |-> "No files to ingest", exc |-> ""])]
    ELSE LET acc == IngestFiles(LoopAcc(st, lg, q, fc), files, 1, investigation_id, copy_ok)
         IN  IF acc.aborted THEN ingestion_except(st, acc) ELSE acc

(* what one run of ingestion did: its inputs and the loop's bookkeeping *)
RunRecord(investigation_id, fresh, files, before, ledger_before, acc) ==
    [investigation_id |-> investigation_id, fresh |-> fresh, files |-> files,
     before |-> before, ledger_before |-> ledger_before,
     started |-> acc.started, extracted |-> acc.extracted,
     document_metadata |-> acc.document_metadata]

NoRun == [investigation_id |-> "none", fresh |-> TRUE, files |-> <<>>,
          before |-> InitialIngestState, ledger_before |-> EmptyDict,
          started |-> {}, extracted |-> {}, document_metadata |-> EmptyDict]

InitIngest ==
    /\ uploads = <<>>
    /\ ledger = EmptyDict
    /\ ledger_calls = EmptyDict
    /\ quarantine = {}
    /\ ingest = [ran |-> FALSE, runs |-> 0, investigation_id |-> "",
                 state |-> InitialIngestState, last |-> NoRun, prev |-> NoRun]
    /\ AnalysisIdle
    /\ ServiceIdle
    /\ state = create_initial_state
    /\ settings = DefaultSettings
    /\ checkpoints = EmptyDict
    /\ run = Idle
    /\ final_state = NotReturned
    /\ gate_locals = NoGateLocals
    /\ calls = <<>>
    /\ memory = <<>>

(* the contents a new file can have: the first content seen is called h1,
   and a file that is rejected or cannot be read is never hashed *)
UploadHashes(result) ==
    IF uploads = <<>> \/ result \in {"rejected", "unreadable"} THEN {"h1"} ELSE Hashes

(* a file is added to the uploads directory *)
Upload ==
    /\ Len(uploads) < MaxFiles
    /\ \E result \in FileResults : \E hash \in UploadHashes(result) :
          uploads' = Append(uploads, File(FileNames[Len(uploads) + 1], hash, result))
    /\ UNCHANGED <<pipeline_vars, analysis_vars, service_vars, ledger, ingest, quarantine, ledger_calls>>

(* one run of the ingestion stage for an investigation: on a fresh initial
   state, as run_investigation and run_monitored_investigation start, or on
   the state the previous run of that investigation left *)
IngestRun ==
    /\ ingest.runs < MaxIngestRuns
    /\ \E investigation_id \in InvestigationIds, fresh \in BOOLEAN, copy_ok \in BOOLEAN :
        /\ ~fresh => (ingest.ran /\ investigation_id = ingest.investigation_id)
        /\ LET st  == IF fresh THEN InitialIngestState ELSE ingest.state
               acc == ingestion_run(st, uploads, ledger, quarantine, ledger_calls,
                                    investigation_id, copy_ok)
               st2 == IngestState(acc.document_metadata, acc.extracted_text,
                                  acc.processed_docs, acc.error_log,
                                  IF uploads = <<>> \/ acc.aborted THEN st.current_step
                                  ELSE "ingestion_complete")
           IN  /\ ledger' = acc.ledger
               /\ ledger_calls' = acc.failed_calls
               /\ quarantine' = acc.quarantine
               /\ ingest' = [ran |-> TRUE, runs |-> ingest.runs + 1,
                             investigation_id |-> investigation_id,
                             state |-> st2,
                             last |-> RunRecord(investigation_id, fresh, uploads, st, ledger, acc),
                             prev |-> ingest.last]
    /\ UNCHANGED <<pipeline_vars, analysis_vars, service_vars, uploads>>

NextIngest == Upload \/ IngestRun

SpecIngest == InitIngest /\ [][NextIngest]_vars

(* ------------------------------------------------------------------ *)
(* Properties of ingestion                                             *)

DocOf(document_metadata, hash) ==
    IF DocId(hash) \in DOMAIN document_metadata
    THEN <<document_metadata[DocId(hash)]>> ELSE <<>>

DoneBefore(r, hash) ==
    get_doc_status(r.ledger_before, hash, r.investigation_id) = STATUS_DONE

FileHashes(files) == {files[i].hash : i \in 1..Len(files)}

(* C12: a hash the ledger had as DONE for the investigation when a run began
   is skipped by that run: not marked PROCESSING, not extracted, its row is
   still DONE afterwards and its Document in the state is as before *)
C12_DoneIsSkipped ==
    ingest.ran =>
        \A hash \in Hashes :
            DoneBefore(ingest.last, hash) =>
                /\ hash \notin ingest.last.started
                /\ hash \notin ingest.last.extracted
                /\ get_doc_status(ledger, hash, ingest.last.investigation_id) = STATUS_DONE
                /\ DocOf(ingest.state.document_metadata, hash)
                     = DocOf(ingest.last.before.document_metadata, hash)

C12_Witness ==
    /\ ingest.runs = 2 /\ ingest.last.fresh
    /\ DoneBefore(ingest.last, "h1") /\ "h1" \in FileHashes(ingest.last.files)
    /\ "h2" \in ingest.last.started

(* C13: a second run of the same investigation on an unchanged, non-empty
   uploads directory leaves the same set of Documents as the first, also
   when it starts from a fresh initial state *)
C13_RerunSameDocuments ==
    (/\ ingest.runs >= 2
     /\ ingest.last.investigation_id = ingest.prev.investigation_id
     /\ ingest.last.files = ingest.prev.files) =>
        ExistingHashes(ingest.last.document_metadata)
            = ExistingHashes(ingest.prev.document_metadata)

NoDuplicates(seq) == \A i, j \in 1..Len(seq) : seq[i] = seq[j] => i = j

(* C14: no two Documents of the state share a content hash, in
   document_metadata and in processed_docs alike, whatever the directory
   holds and whatever the state held before *)
C14_UniqueHash ==
    ingest.ran =>
        LET dm == ingest.state.document_metadata IN
        /\ \A d1, d2 \in DOMAIN dm : dm[d1].file_hash = dm[d2].file_hash => d1 = d2
        /\ NoDuplicates(ingest.state.processed_docs)
        /\ Range(ingest.state.processed_docs) = DOMAIN dm
        /\ DOMAIN ingest.state.extracted_text = DOMAIN dm

C14_Witness ==
    /\ ingest.runs = 2 /\ ~ingest.last.fresh
    /\ Len(uploads) = 2
    /\ uploads[1].hash = "h1" /\ uploads[2].hash = "h1"
    /\ uploads[1].result = "encrypted" /\ uploads[2].result = "success"
    /\ ingest.last.before.document_metadata # EmptyDict
    /\ Len(ingest.state.processed_docs) = 1

(* a file of the directory the run had to process: supported and small
   enough, its content neither a Document of the state nor DONE in the
   ledger when the run began *)
Accepted(r, f) ==
    /\ f.result # "rejected"
    /\ f.hash \notin ExistingHashes(r.before.document_metadata)
    /\ ~DoneBefore(r, f.hash)

(* C28: ingestion marks a file PROCESSING before it extracts it; when the
   stage returns, every row the run marked PROCESSING is DONE (document
   status success or partial) or FAILED (any other status, or an exception
   on the file), none is still PROCESSING, and no failure on one file
   keeps another accepted file of the directory from being processed *)
C28_NoRowLeftProcessing ==
    ingest.ran =>
        LET r == ingest.last IN
        /\ r.extracted \subseteq r.started
        /\ \A hash \in r.started :
              LET row == get_doc_status(ledger, hash, r.investigation_id)
                  doc == DocOf(r.document_metadata, hash)
              IN  /\ row \in {STATUS_DONE, STATUS_FAILED}
                  /\ row = STATUS_DONE <=>
                        /\ hash \in r.extracted
                        /\ doc # <<>>
                        /\ doc[1].status \in {"success", "partial"}
        /\ \A i \in 1..Len(r.files) :
              (Accepted(r, r.files[i]) /\ r.files[i].result # "unreadable")
                  => r.files[i].hash \in r.started

(* C15: a file copied to the quarantine directory has no Document: its hash
   is in none of document_metadata, extracted_text, processed_docs *)
C15_QuarantineDisjoint ==
    ingest.ran =>
        \A f \in quarantine :
            /\ f.hash \notin ExistingHashes(ingest.state.document_metadata)
            /\ DocId(f.hash) \notin DOMAIN ingest.state.extracted_text
            /\ DocId(f.hash) \notin Range(ingest.state.processed_docs)

----------------------------------------------------------------------------
(* agents/entity_extractor.py: merging mentions and building relationships *)

(* the ids of the documents with text, in sorted order *)
TextDocIds == <<"d1", "d2">>

(* the documents of a second investigation *)
OtherDocIds == <<"x1", "x2">>

(* the position of a document id in the order of Python strings *)
DocRank(d) == CHOOSE i \in 1..Len(TextDocIds \o OtherDocIds) : (TextDocIds \o OtherDocIds)[i] = d

(* the (normalized_text, type) pairs the documents mention: one text under
   two types, and a second text *)
MentionPairs == {<<"Ana", "PERSON">>, <<"Ana", "ORG">>, <<"Acme", "ORG">>}

(* what _extract_entities_one_doc yields for a mention; its normalized_text
   is already whitespace-normalized, so the strip() of the merge is idle *)
Mention(doc_id, normalized_text, type) ==
    [doc_id |-> doc_id, normalized_text |-> normalized_text, type |-> type]

Mentions == {Mention(d, p[1], p[2]) : d \in Range(TextDocIds), p \in MentionPairs}

(* the keys of a dict in insertion order / list(dict.fromkeys(seq)) *)
RECURSIVE FirstSeen(_)
FirstSeen(seq) ==
    IF seq = <<>> THEN <<>>
    ELSE LET r == FirstSeen(SubSeq(seq, 1, Len(seq) - 1))
             last == seq[Len(seq)]
         IN  IF last \in Range(r) THEN r ELSE Append(r, last)

(* sorted(set of doc ids) *)
RECURSIVE SortDocs(_)
SortDocs(S) ==
    IF S = {} THEN <<>>
    ELSE LET m == CHOOSE d \in S : \A e \in S : DocRank(d) <= DocRank(e)
         IN  <<m>> \o SortDocs(S \ {m})

(* line 173: key = (norm, type) *)
MentionKey_text_only(m) == <<m.normalized_text, "">>

MentionKey(m) == <<m.normalized_text, m.type>>

(* uuid4 ids, as their rank in string order: the entities may get them in
   either order *)
IdDraws(n) == {[i \in 1..n |-> i], [i \in 1..n |-> n + 1 - i]}

(* _merge_entities: the entities in order of creation *)
merge_entities(raw, ids) ==
    LET keys == FirstSeen([i \in 1..Len(raw) |-> MentionKey(raw[i])])
        with(key) == {j \in 1..Len(raw) : MentionKey(raw[j]) = key}
        first(key) == raw[CHOOSE j \in with(key) : \A j2 \in with(key) : j <= j2]
        docs(key) == {raw[j].doc_id : j \in with(key)}
    IN  [i \in 1..Len(keys) |->
            [entity_id |-> ids[i],
             text |-> keys[i][1],
             type |-> first(keys[i]).type,
             normalized_text |-> keys[i][1],
             documents |-> SortDocs(docs(keys[i])),
             frequency |-> Cardinality(docs(keys[i]))]]

KeysOf(raw) == FirstSeen([i \in 1..Len(raw) |-> MentionKey(raw[i])])

(* lines 203-212: text_to_eid, a later entity with the same key replaces an
   earlier one; 0 when the mention's key has no entity *)
EidOf(entities_list, m) ==
    LET hits == {i \in 1..Len(entities_list) :
                    /\ entities_list[i].normalized_text = m.normalized_text
                    /\ entities_list[i].type = m.type}
    IN  IF hits = {} THEN 0
        ELSE entities_list[CHOOSE i \in hits : \A i2 \in hits : i >= i2].entity_id

(* doc_to_eids[doc_id]: the entity ids of the document's mentions, in order *)
RECURSIVE DocEids(_, _, _)
DocEids(entities_list, raw, doc_id) ==
    IF raw = <<>> THEN <<>>
    ELSE LET rest == DocEids(entities_list, SubSeq(raw, 1, Len(raw) - 1), doc_id)
             m    == raw[Len(raw)]
         IN  IF m.doc_id = doc_id /\ EidOf(entities_list, m) # 0
             THEN Append(rest, EidOf(entities_list, m)) ELSE rest

(* line 220: tuple(sorted([a, b])) *)
SortPair(a, b) == IF a <= b THEN <<a, b>> ELSE <<b, a>>

(* lines 216-221: how often one document appends itself for a pair *)
PairHits(eids, pair) ==
    Cardinality({ij \in (1..Len(eids)) \X (1..Len(eids)) :
                    /\ ij[1] < ij[2]
                    /\ eids[ij[1]] # eids[ij[2]]
                    /\ SortPair(eids[ij[1]], eids[ij[2]]) = pair})

RECURSIVE Repeat(_, _)
Repeat(x, n) == IF n = 0 THEN <<>> ELSE Append(Repeat(x, n - 1), x)

(* pair_to_evidence[pair] over the documents in doc_to_eids order *)
RECURSIVE PairEvidence(_, _, _, _)
PairEvidence(entities_list, raw, docs, pair) ==
    IF docs = <<>> THEN <<>>
    ELSE PairEvidence(entities_list, raw, SubSeq(docs, 1, Len(docs) - 1), pair)
         \o Repeat(docs[Len(docs)],
                   PairHits(DocEids(entities_list, raw, docs[Len(docs)]), pair))

(* line 225: list(dict.fromkeys(evidence_doc_ids)) *)
DedupEvidence_keep(evidence_doc_ids) == evidence_doc_ids

DedupEvidence(evidence_doc_ids) == FirstSeen(evidence_doc_ids)

(* line 236: min(0.95, 0.7 + 0.05 * min(evidence_count, 5)) *)
RelConfidence(evidence_count) == Min(950, 700 + 50 * Min(evidence_count, 5))

TypeOfId(entities_list, id) ==
    LET hits == {i \in 1..Len(entities_list) : entities_list[i].entity_id = id}
    IN  IF hits = {} THEN "" ELSE entities_list[CHOOSE i \in hits : TRUE].type

(* _build_relationships and the Relationship objects process() makes of its
   result; the list is given as the set of its members *)
build_relationships(entities_list, raw) ==
    LET ids   == {entities_list[i].entity_id : i \in 1..Len(entities_list)}
        docs  == FirstSeen([i \in 1..Len(raw) |-> raw[i].doc_id])
        pairs == {p \in ids \X ids :
                     PairEvidence(entities_list, raw, docs, p) # <<>>}
    IN  {LET evidence == DedupEvidence(PairEvidence(entities_list, raw, docs, p))
         IN  [source_entity_id |-> p[1], target_entity_id |-> p[2],
              relationship_type |-> IF TypeOfId(entities_list, p[1]) # TypeOfId(entities_list, p[2])
                                    THEN "ASSOCIATED_WITH" ELSE "CO_OCCURRENCE",
              evidence_doc_ids |-> evidence,
              evidence_count |-> Len(evidence),
              weight |-> Len(evidence),
              confidence |-> RelConfidence(Len(evidence))]
         : p \in pairs}

(* process(), lines 58-89 *)
extract_entities(raw, ids) ==
    LET entities_list == merge_entities(raw, ids)
    IN  [entities |-> entities_list,
         relationships |-> build_relationships(entities_list, raw)]

(* the rest of the program, not in use *)
PipelineIdle ==
    /\ state = create_initial_state
    /\ settings = DefaultSettings
    /\ checkpoints = EmptyDict
    /\ run = Idle
    /\ final_state = NotReturned
    /\ gate_locals = NoGateLocals
    /\ calls = <<>>
    /\ memory = <<>>

InitExtract ==
    /\ \E raw \in SeqsUpTo(Mentions, MaxMentions) :
          extract = [ran |-> FALSE, raw |-> raw, results |-> <<>>]
    /\ links = NotCalled
    /\ IngestIdle
    /\ PipelineIdle
    /\ ServiceIdle

(* one run of the stage on the documents' mentions *)
ExtractRun ==
    /\ Len(extract.results) < MaxExtractRuns
    /\ \E ids \in IdDraws(Len(KeysOf(extract.raw))) :
          extract' = [extract EXCEPT
                        !.ran = TRUE,
                        !.results = Append(@, extract_entities(extract.raw, ids))]
    /\ UNCHANGED <<pipeline_vars, ingest_vars, service_vars, links>>

NextExtract == ExtractRun

SpecExtract == InitExtract /\ [][NextExtract]_vars

(* ------------------------------------------------------------------ *)
(* Properties of entity extraction                                     *)

TruePair(m) == <<m.normalized_text, m.type>>

EntityPair(e) == <<e.normalized_text, e.type>>

MentionDocs(raw, pair) == {raw[j].doc_id : j \in {j \in 1..Len(raw) : TruePair(raw[j]) = pair}}

EntityById(entities, id) == entities[CHOOSE i \in 1..Len(entities) : entities[i].entity_id = id]

(* a result with the generated ids taken out *)
Canonical(result) ==
    [entities |-> {[pair |-> EntityPair(result.entities[i]),
                    documents |-> result.entities[i].documents,
                    frequency |-> result.entities[i].frequency]
                   : i \in 1..Len(result.entities)},
     relationships |-> {[ends |-> {EntityPair(EntityById(result.entities, r.source_entity_id)),
                                   EntityPair(EntityById(result.entities, r.target_entity_id))},
                         evidence_doc_ids |-> r.evidence_doc_ids,
                         evidence_count |-> r.evidence_count,
                         weight |-> r.weight]
                        : r \in result.relationships}]

(* C17: mentions end up in one entity exactly when their (normalized_text,
   type) pairs are equal, every entity's frequency is the number of distinct
   documents of its mentions, and two runs on the same mentions agree up to
   the generated ids *)
C17_MergeRule ==
    /\ \A k \in 1..Len(extract.results) :
        LET entities == extract.results[k].entities IN
        /\ \A j \in 1..Len(extract.raw) :
              Cardinality({i \in 1..Len(entities) :
                              EntityPair(entities[i]) = TruePair(extract.raw[j])}) = 1
        /\ \A i \in 1..Len(entities) :
              /\ \E j \in 1..Len(extract.raw) : TruePair(extract.raw[j]) = EntityPair(entities[i])
              /\ Range(entities[i].documents) = MentionDocs(extract.raw, EntityPair(entities[i]))
              /\ NoDuplicates(entities[i].documents)
              /\ entities[i].frequency = Len(entities[i].documents)
        /\ \A i1, i2 \in 1..Len(entities) :
              entities[i1].entity_id = entities[i2].entity_id => i1 = i2
    /\ \A k1, k2 \in 1..Len(extract.results) :
          Canonical(extract.results[k1]) = Canonical(extract.results[k2])

C17_Witness ==
    /\ Len(extract.results) = 2
    /\ Len(extract.raw) = 3
    /\ TruePair(extract.raw[1]) = TruePair(extract.raw[3])
    /\ extract.raw[1].doc_id # extract.raw[3].doc_id
    /\ extract.raw[2].normalized_text = extract.raw[1].normalized_text
    /\ extract.raw[2].type # extract.raw[1].type
    /\ Len(extract.results[1].entities) = 2
    /\ extract.results[1].entities[1].entity_id # extract.results[2].entities[1].entity_id

(* the documents that mention both entities *)
SharedDocs(entities, a, b) ==
    Range(EntityById(entities, a).documents) \cap Range(EntityById(entities, b).documents)

(* C18: a relationship has two distinct endpoints in sorted order, there is
   exactly one per unordered pair of distinct entities mentioned together in
   some document and none for other pairs, its evidence is those documents,
   each once, and weight = evidence_count = the size of the evidence *)
C18_Relationships ==
    \A k \in 1..Len(extract.results) :
        LET entities == extract.results[k].entities
            rels     == extract.results[k].relationships
            ids      == {entities[i].entity_id : i \in 1..Len(entities)}
        IN  /\ \A r \in rels :
                  /\ r.source_entity_id \in ids /\ r.target_entity_id \in ids
                  /\ r.source_entity_id < r.target_entity_id
                  /\ NoDuplicates(r.evidence_doc_ids)
                  /\ Range(r.evidence_doc_ids)
                        = SharedDocs(entities, r.source_entity_id, r.target_entity_id)
                  /\ r.evidence_doc_ids # <<>>
                  /\ r.evidence_count = Len(r.evidence_doc_ids)
                  /\ r.weight = r.evidence_count
            /\ \A a, b \in ids :
                  (a < b /\ SharedDocs(entities, a, b) # {}) =>
                      Cardinality({r \in rels :
                          {r.source_entity_id, r.target_entity_id} = {a, b}}) = 1

C18_Witness ==
    /\ extract.ran
    /\ Len(extract.raw) = 4
    /\ extract.raw[1] = extract.raw[2]
    /\ extract.raw[3].doc_id = extract.raw[1].doc_id
    /\ TruePair(extract.raw[3]) # TruePair(extract.raw[1])
    /\ extract.raw[4] = [extract.raw[3] EXCEPT !.doc_id = "d2"]
    /\ extract.raw[1].doc_id = "d1"
    /\ \E r \in extract.results[1].relationships :
          r.evidence_doc_ids = <<"d1">> /\ r.source_entity_id = 1 /\ r.target_entity_id = 2

----------------------------------------------------------------------------
(* agents/semantic_linker.py: SemanticLinkerAgent.process, the link loop *)

SEMANTIC_SIMILARITY_THRESHOLD == 750
MIN_SHARED_ENTITIES == 2
MAX_LINKS_PER_DOCUMENT == 50

(* a hit without a distance *)
NoDistance == -1

Distances == {250, 300, NoDistance}

(* a hit of query_similar: the document of the matching chunk and its
   distance *)
Hit(doc_id, distance) == [doc_id |-> doc_id, distance |-> distance]

HitShapes == {Hit(d, x) : d \in Range(TextDocIds), x \in Distances}

(* list(extracted.keys()): the documents in the order ingestion wrote them *)
DocOrders == {<<"d1", "d2">>, <<"d2", "d1">>}

(* _similarity_from_distance *)
similarity_from_distance(distance) == Max(0, Scale - distance)

(* line 133 *)
Similarity(hit) ==
    IF hit.distance # NoDistance THEN similarity_from_distance(hit.distance) ELSE 500

(* line 129: (min(doc_i, doc_j), max(doc_i, doc_j)) *)
LinkPair(doc_i, doc_j) ==
    IF DocRank(doc_i) <= DocRank(doc_j) THEN <<doc_i, doc_j>> ELSE <<doc_j, doc_i>>

(* SemanticLink(doc_id_1=doc_i, doc_id_2=doc_j, similarity_score=round(sim, 4)) *)
SemanticLink(doc_i, doc_j, sim) ==
    [doc_id_1 |-> doc_i, doc_id_2 |-> doc_j, similarity_score |-> sim]

(* lines 122-160: the hits of one query, from hit k on; acc holds links,
   seen_pairs and count_per_doc *)
RECURSIVE LinkHits(_, _, _, _, _)
LinkHits(acc, doc_i, results, k, shared) ==
    IF k > Len(results) \/ acc.count_per_doc >= MAX_LINKS_PER_DOCUMENT THEN acc
    ELSE LET hit   == results[k]
             doc_j == hit.doc_id
             pair  == LinkPair(doc_i, doc_j)
             sim   == Similarity(hit)
             skip  == \/ doc_j = doc_i
                      \/ pair \in acc.seen_pairs
                      \/ sim < SEMANTIC_SIMILARITY_THRESHOLD
                      \/ (MIN_SHARED_ENTITIES > 0 /\ shared > 0 /\ shared < MIN_SHARED_ENTITIES)
         IN  LinkHits(IF skip THEN acc
                      ELSE [acc EXCEPT !.seen_pairs = @ \cup {pair},
                                       !.count_per_doc = @ + 1,
                                       !.links = Append(@, SemanticLink(doc_i, doc_j, sim))],
                      doc_i, results, k + 1, shared)

(* lines 111-160: the loop over the documents *)
RECURSIVE LinkDocs(_, _, _, _, _)
LinkDocs(acc, doc_ids, i, hits, shared) ==
    IF i > Len(doc_ids) THEN acc
    ELSE LinkDocs(LinkHits([acc EXCEPT !.count_per_doc = 0], doc_ids[i],
                           hits[doc_ids[i]], 1, shared),
                  doc_ids, i + 1, hits, shared)

(* lines 106-160 and 208: the semantic_links process() leaves, starting from
   the links the state holds and an empty seen_pairs *)
semantic_linker(semantic_links, doc_ids, hits, shared) ==
    IF Len(doc_ids) < 2 THEN semantic_links
    ELSE LinkDocs([links |-> semantic_links, seen_pairs |-> {}, count_per_doc |-> 0],
                  doc_ids, 1, hits, shared).links

InitLink ==
    /\ \E doc_ids \in DocOrders, shared \in 0..2,
          h1 \in SeqsUpTo(HitShapes, MaxHits), h2 \in SeqsUpTo(HitShapes, MaxHits) :
          links = [ran |-> FALSE, runs |-> 0, doc_ids |-> doc_ids, shared |-> shared,
                   hits |-> [d \in Range(TextDocIds) |-> IF d = "d1" THEN h1 ELSE h2],
                   before |-> <<>>, semantic_links |-> <<>>]
    /\ extract = NotCalled
    /\ IngestIdle
    /\ PipelineIdle
    /\ ServiceIdle

(* one run of the stage: on a fresh state, or on the state the previous run
   left *)
LinkRun ==
    /\ links.runs < MaxLinkRuns
    /\ \E fresh \in BOOLEAN :
        LET held == IF fresh THEN <<>> ELSE links.semantic_links IN
        links' = [links EXCEPT
                    !.ran = TRUE,
                    !.runs = @ + 1,
                    !.before = held,
                    !.semantic_links = semantic_linker(held, links.doc_ids,
                                                       links.hits, links.shared)]
    /\ UNCHANGED <<pipeline_vars, ingest_vars, service_vars, extract>>

NextLink == LinkRun

SpecLink == InitLink /\ [][NextLink]_vars

(* ------------------------------------------------------------------ *)
(* Properties of semantic linking                                      *)

(* C19: every semantic link of the state has doc_id_1 < doc_id_2 and a
   similarity score at or above the threshold *)
C19_LinkOrderAndScore ==
    links.ran =>
        \A k \in 1..Len(links.semantic_links) :
            /\ DocRank(links.semantic_links[k].doc_id_1)
                  < DocRank(links.semantic_links[k].doc_id_2)
            /\ links.semantic_links[k].similarity_score >= SEMANTIC_SIMILARITY_THRESHOLD

LinkEnds(l) == {l.doc_id_1, l.doc_id_2}

(* C20: semantic_links holds at most one link per unordered pair of
   documents, also when chunks of one document match twice and when the
   state held links before the run *)
C20_OneLinkPerPair ==
    links.ran =>
        \A k1, k2 \in 1..Len(links.semantic_links) :
            LinkEnds(links.semantic_links[k1]) = LinkEnds(links.semantic_links[k2]) => k1 = k2

----------------------------------------------------------------------------
(* core/monitors.py: ActivityMonitor, and its callers in core/graph_enhanced.py
   and api/ *)

(* deque(maxlen=500) *)
MAXLEN == 500

Investigations == {"inv1", "inv2"}

(* the investigation whose stages go on emitting after the first MaxMixed
   events; interleavings of starts and emits are explored among the first
   MaxMixed events *)
BulkInvestigation == "inv2"

(* an event; seq stands for its timestamp and payload: the k-th emit *)
Event(investigation_id, k) == [investigation_id |-> investigation_id, seq |-> k]

(* deque.append with maxlen: a full deque drops its oldest element *)
deque_append(events, e) ==
    IF Len(events) = MAXLEN THEN Append(Tail(events), e) ELSE Append(events, e)

(* list(self._events)[-n:] : the slice from -0 is the whole list *)
LastN(events, n) ==
    IF n = 0 \/ n >= Len(events) THEN events
    ELSE SubSeq(events, Len(events) - n + 1, Len(events))

(* [e for e in events if e.get("investigation_id") == investigation_id] *)
FilterEvents(events, investigation_id) ==
    LET Mine(e) == e.investigation_id = investigation_id IN SelectSeq(events, Mine)

(* get_recent(n, investigation_id); "" is no investigation_id *)
get_recent(events, n, investigation_id) ==
    IF investigation_id # "" THEN FilterEvents(LastN(events, n), investigation_id)
    ELSE LastN(events, n)

(* the sizes callers ask for: 50 and 100 in api/, any n >= 0 by direct call *)
ReadSizes == {0, 1, 2, 50}

InitMonitor ==
    /\ monitor = [ran |-> TRUE, events |-> <<>>, emitted |-> 0,
                  status |-> [i \in Investigations |-> "new"],
                  lost |-> FALSE]
    /\ inv_store = NotCalled /\ kb = NotCalled /\ classify = NotCalled
    /\ IngestIdle
    /\ AnalysisIdle
    /\ PipelineIdle

MonitorOpen == monitor.ran

(* run_monitored_investigation lines 94-98: ActivityMonitor().clear(), then
   the graph starts.  lost: the clear dropped events of an investigation
   whose run had not finished *)
StartMonitoredRun ==
    /\ MonitorOpen
    /\ monitor.emitted < MaxMixed
    /\ \E i \in Investigations :
        /\ monitor.status[i] = "new"
        /\ monitor' = [monitor EXCEPT
               !.events = <<>>,
               !.status[i] = "running",
               !.lost = @ \/ \E k \in 1..Len(monitor.events) :
                               monitor.status[monitor.events[k].investigation_id] = "running"]
    /\ UNCHANGED <<pipeline_vars, ingest_vars, analysis_vars, inv_store, kb, classify>>

(* wrap_agent: a stage of a running investigation emits start, end or error *)
Emit ==
    /\ MonitorOpen
    /\ monitor.emitted < MAXLEN + MaxExtra
    /\ \E i \in Investigations :
        /\ monitor.status[i] = "running"
        /\ i = BulkInvestigation \/ monitor.emitted < MaxMixed
        /\ monitor' = [monitor EXCEPT
               !.events = deque_append(@, Event(i, monitor.emitted + 1)),
               !.emitted = @ + 1]
    /\ UNCHANGED <<pipeline_vars, ingest_vars, analysis_vars, inv_store, kb, classify>>

(* app.invoke returned *)
FinishMonitoredRun ==
    /\ MonitorOpen
    /\ monitor.emitted < MaxMixed
    /\ \E i \in Investigations :
        /\ monitor.status[i] = "running"
        /\ monitor' = [monitor EXCEPT !.status[i] = "done"]
    /\ UNCHANGED <<pipeline_vars, ingest_vars, analysis_vars, inv_store, kb, classify>>

NextMonitor == StartMonitoredRun \/ Emit \/ FinishMonitoredRun

SpecMonitor == InitMonitor /\ [][NextMonitor]_vars

(* ------------------------------------------------------------------ *)
(* Properties of the activity buffer                                   *)

(* the seq numbers an event sequence holds, in order *)
Seqs(events) == [k \in DOMAIN events |-> events[k].seq]

(* the most recent n of the emitted events, oldest first *)
MostRecent(emitted, n) == [k \in 1..Min(n, emitted) |-> emitted - Min(n, emitted) + k]

(* C22: the buffer holds the most recent events, at most 500, in emission
   order; get_recent(n) returns the last n of them, newest last; an event
   is dropped only after 500 newer ones, so the events of a running
   investigation survive the start of another monitored run *)
C22_ActivityBuffer ==
    monitor.ran =>
        /\ Seqs(monitor.events) = MostRecent(monitor.emitted, MAXLEN)
        /\ \A n \in ReadSizes :
              Seqs(get_recent(monitor.events, n, "")) = MostRecent(monitor.emitted, n)
        /\ ~monitor.lost

----------------------------------------------------------------------------
(* core/investigation_store.py and api/main.py _run_investigation_and_save *)

(* Python values as trees.  A str carries no content here, except the
   ISO-8601 text of a timestamp, which carries the instant it was made from *)
PyStr == [t |-> "str", iso |-> FALSE, v |-> 0]
PyIso(instant) == [t |-> "str", iso |-> TRUE, v |-> instant]
PyInt(n) == [t |-> "int", iso |-> FALSE, v |-> n]
PyNone == [t |-> "none", iso |-> FALSE, v |-> 0]
PyDatetime(instant) == [t |-> "datetime", iso |-> FALSE, v |-> instant]
(* an instance of a pydantic BaseModel of core/state.py *)
PyModel == [t |-> "model", iso |-> FALSE, v |-> 0]
PyList(items) == [t |-> "list", items |-> items]
PyDict(items) == [t |-> "dict", items |-> items]

(* save_state lines 99-106 *)
RECURSIVE serialize(_)
serialize(obj) ==
    CASE obj.t = "datetime" -> PyIso(obj.v)
      [] obj.t = "dict" -> PyDict([k \in DOMAIN obj.items |-> serialize(obj.items[k])])
      [] obj.t = "list" -> PyList([k \in DOMAIN obj.items |-> serialize(obj.items[k])])
      [] OTHER -> obj

(* json.dumps raises TypeError on a value that is no JSON type *)
RECURSIVE JsonSerializable(_)
JsonSerializable(obj) ==
    CASE obj.t \in {"datetime", "model"} -> FALSE
      [] obj.t \in {"dict", "list"} -> \A k \in DOMAIN obj.items : JsonSerializable(obj.items[k])
      [] OTHER -> TRUE

NoFile == [exists |-> FALSE]
FileOf(content) == [exists |-> TRUE, content |-> content]

Meta(version, updated_at, batches) ==
    [version |-> version, updated_at |-> updated_at, batches |-> batches]

(* save_state: the files of the investigation directory afterwards, and
   whether it raised (json.dumps raises before state.json is written) *)
save_state(dir, st, now) ==
    LET payload == serialize(st) IN
    IF ~JsonSerializable(payload) THEN [dir |-> dir, raised |-> TRUE]
    ELSE LET meta == IF dir.meta.exists THEN dir.meta.content ELSE Meta(1, 0, 0)
             version == IF "version" \in DOMAIN st.items THEN st.items["version"].v
                        ELSE meta.version
         IN  [dir |-> [state |-> FileOf(payload),
                       meta |-> FileOf([meta EXCEPT !.updated_at = now,
                                                    !.version = version])],
              raised |-> FALSE]

(* load_state: json.loads of state.json, None without the file *)
load_state(dir) == IF dir.state.exists THEN dir.state.content ELSE PyNone

(* append_batch *)
append_batch(dir) ==
    IF dir.meta.exists
    THEN [dir EXCEPT !.meta.content.batches = @ + 1] ELSE dir

(* the typed records the stages leave in a state with documents *)
TypedFields == {"classifications", "relationships", "semantic_links", "timeline", "patterns"}

(* the combinations of typed fields the model draws: none, one, all *)
TypedChoices == {{}, TypedFields} \cup {{f} : f \in TypedFields}

(* what run_monitored_investigation returns: create_initial_state (version 1,
   last_updated None) as the stages filled it.  with_docs: the uploads held a
   document; typed: the fields in which a stage left a BaseModel instance *)
RunResult(with_docs, typed, instant) ==
    PyDict([f \in {"version", "last_updated", "current_step", "document_metadata"}
                   \cup TypedFields |->
        CASE f = "version" -> PyInt(1)
          [] f = "last_updated" -> PyNone
          [] f = "current_step" -> PyStr
          [] f = "document_metadata" ->
                IF with_docs
                THEN PyDict([d \in {"d1"} |->
                        PyDict([k \in {"doc_id", "upload_timestamp"} |->
                            IF k = "doc_id" THEN PyStr ELSE PyDatetime(instant)])])
                ELSE PyDict(EmptyDict)
          [] f = "classifications" ->
                PyDict(IF f \in typed THEN [d \in {"d1"} |-> PyModel] ELSE EmptyDict)
          [] OTHER -> PyList(IF f \in typed THEN <<PyModel>> ELSE <<>>)])

NoSave == [called |-> FALSE]

InitStore ==
    /\ inv_store = [ran |-> TRUE, now |-> 1,
                    dirs |-> [i \in Investigations |-> [state |-> NoFile, meta |-> NoFile]],
                    saves |-> <<>>, last |-> NoSave]
    /\ monitor = NotCalled /\ kb = NotCalled /\ classify = NotCalled
    /\ IngestIdle
    /\ AnalysisIdle
    /\ PipelineIdle

(* create(): meta.json with version 1 *)
CreateInvestigation ==
    /\ inv_store.ran
    /\ \E i \in Investigations :
        /\ ~inv_store.dirs[i].meta.exists
        /\ inv_store' = [inv_store EXCEPT
               !.dirs[i].meta = FileOf(Meta(1, inv_store.now, 0)),
               !.now = @ + 1]
    /\ UNCHANGED <<pipeline_vars, ingest_vars, analysis_vars, monitor, kb, classify>>

(* _run_investigation_and_save lines 59-75: the run, version and
   last_updated, save_state, append_batch; an exception of save_state is
   caught and logged.  saves: the successful saves, in order *)
RunAndSave ==
    /\ inv_store.ran
    /\ Len(inv_store.saves) < MaxSaves
    /\ inv_store.now <= 2 * MaxSaves + Cardinality(Investigations)
    /\ \E i \in Investigations, with_docs \in BOOLEAN, typed \in TypedChoices :
        /\ ~with_docs => typed = {}
        /\ LET final == RunResult(with_docs, typed, inv_store.now)
               st    == PyDict([f \in DOMAIN final.items |->
                           CASE f = "version" -> PyInt(final.items["version"].v)
                             [] f = "last_updated" -> PyIso(inv_store.now + 1)
                             [] OTHER -> final.items[f]])
               saved == save_state(inv_store.dirs[i], st, inv_store.now + 1)
           IN  inv_store' = [inv_store EXCEPT
                   !.now = @ + 2,
                   !.dirs[i] = IF saved.raised THEN @ ELSE append_batch(saved.dir),
                   !.saves = IF saved.raised THEN @
                             ELSE Append(@, [investigation_id |-> i,
                                             version |-> st.items["version"].v,
                                             last_updated |-> st.items["last_updated"].v]),
                   !.last = [called |-> TRUE, investigation_id |-> i, state |-> st,
                             raised |-> saved.raised,
                             loaded |-> load_state(IF saved.raised THEN inv_store.dirs[i]
                                                   ELSE saved.dir)]]
    /\ UNCHANGED <<pipeline_vars, ingest_vars, analysis_vars, monitor, kb, classify>>

NextStore == CreateInvestigation \/ RunAndSave

SpecStore == InitStore /\ [][NextStore]_vars

(* ------------------------------------------------------------------ *)
(* Properties of the investigation store                               *)

(* C24: each save of an investigation stores a version strictly greater
   than its previous save did, in the state and in meta.json, and a newer
   last_updated *)
C24_VersionGrows ==
    inv_store.ran =>
        /\ \A k1, k2 \in 1..Len(inv_store.saves) :
              (k1 < k2 /\ inv_store.saves[k1].investigation_id
                            = inv_store.saves[k2].investigation_id) =>
                  /\ inv_store.saves[k1].version < inv_store.saves[k2].version
                  /\ inv_store.saves[k1].last_updated < inv_store.saves[k2].last_updated
        /\ \A i \in Investigations :
              inv_store.dirs[i].state.exists =>
                  inv_store.dirs[i].meta.content.version
                      = inv_store.dirs[i].state.content.items["version"].v

(* a equals b up to timestamps written as ISO-8601 text *)
RECURSIVE SemanticallyEqual(_, _)
SemanticallyEqual(a, b) ==
    CASE a.t = "datetime" -> b.t = "str" /\ b.iso /\ b.v = a.v
      [] a.t \in {"dict", "list"} ->
            /\ b.t = a.t
            /\ DOMAIN b.items = DOMAIN a.items
            /\ \A k \in DOMAIN a.items : SemanticallyEqual(a.items[k], b.items[k])
      [] OTHER -> b.t = a.t /\ b = a

(* C25: save_state followed by load_state succeeds and returns a state
   semantically equal to the saved one, timestamps as ISO strings, for every
   state the pipeline produces, typed records included *)
C25_SaveLoadRoundTrip ==
    (inv_store.ran /\ inv_store.last.called) =>
        /\ ~inv_store.last.raised
        /\ SemanticallyEqual(inv_store.last.state, inv_store.last.loaded)

----------------------------------------------------------------------------
(* Python floats of the classifier, kept exactly.  Every value the priority
   arithmetic meets lies within a few ulps of a multiple of 0.05, so a double
   is the pair [k, e] standing for k/20 + e/(5 * 2^56): e is an integer for
   every double in [1/16, 2). *)
Dbl(k, e) == [k |-> k, e |-> e]

(* the spacing of the doubles around k/20 + e/(5 * 2^56), in units of
   1/(5 * 2^56): 2^-52 in [1, 2), 2^-53 in [1/2, 1), ... *)
UlpUnits(k, e) ==
    CASE k > 20 \/ (k = 20 /\ e >= 0) -> 80
      [] k > 10 \/ (k = 10 /\ e >= 0) -> 40
      [] k > 5 \/ (k = 5 /\ e >= 0)   -> 20
      [] k >= 3 -> 10
      [] k = 2  -> 5
      [] OTHER  -> 1

(* 2^54 modulo m: k/20 is k * 2^54 units *)
Pow54Mod(m) ==
    CASE m \in {160, 80} -> 64
      [] m = 40 -> 24
      [] m \in {20, 10, 5} -> 4
      [] OTHER -> 0

(* IEEE 754 round-to-nearest, ties to even, of the exact value [k, e] *)
FRound(k, e) ==
    LET m  == UlpUnits(k, e)
        r  == (k * Pow54Mod(m) + e) % m
        r2 == (k * Pow54Mod(2 * m) + e) % (2 * m)
    IN  IF 2 * r < m THEN Dbl(k, e - r)
        ELSE IF 2 * r > m THEN Dbl(k, e + m - r)
        ELSE IF r2 = r THEN Dbl(k, e - r) ELSE Dbl(k, e + m - r)

(* the double a decimal literal k/20 denotes: 0.2 is Lit(4) *)
Lit(k) == FRound(k, 0)

(* the operands are bound to their values first, so that each is computed
   once *)
FAdd(a, b) == CHOOSE r \in {FRound(x.k + y.k, x.e + y.e) : x \in {a}, y \in {b}} : TRUE
FSub(a, b) == CHOOSE r \in {FRound(x.k - y.k, x.e - y.e) : x \in {a}, y \in {b}} : TRUE
(* n * a for a small int n *)
FMul(n, a) == CHOOSE r \in {FRound(n * x.k, n * x.e) : x \in {a}} : TRUE
FGe(a, b) == \E x \in {a}, y \in {b} : x.k > y.k \/ (x.k = y.k /\ x.e >= y.e)
(* min(a, b), max(a, b) of Python: the first argument unless the second is
   smaller, resp. larger *)
FMin(a, b) ==
    CHOOSE r \in {IF FGe(x, y) /\ x # y THEN y ELSE x : x \in {a}, y \in {b}} : TRUE
FMax(a, b) ==
    CHOOSE r \in {IF FGe(y, x) /\ x # y THEN y ELSE x : x \in {a}, y \in {b}} : TRUE

(* round(x, 2) for x within an ulp or so of k/20: the double nearest k/20 *)
Round2(x) == Lit(x.k)

----------------------------------------------------------------------------
(* agents/classifier.py *)

(* _estimated_relevance *)
estimated_relevance(priority_score) ==
    CHOOSE r \in {IF FGe(p, Lit(16)) THEN "critical"
                  ELSE IF FGe(p, Lit(12)) THEN "high"
                  ELSE IF FGe(p, Lit(8)) THEN "medium"
                  ELSE "low" : p \in {priority_score}} : TRUE

(* what the classifier reads off a document: the boosts that apply, the
   number of suspicious patterns, and whether the language is unknown or the
   text is shorter than 50 words *)
DocShapes ==
    [short : BOOLEAN, doc_type : BOOLEAN, domain : BOOLEAN, keyword : BOOLEAN,
     offshore : BOOLEAN, suspicious : 0..MaxSuspicious, reference : BOOLEAN,
     unknown_language : BOOLEAN]

(* _priority_score lines 192-218; the sums are taken in the code's order *)
priority_score(d) ==
    LET b0 == Lit(10)
        b1 == IF d.doc_type THEN FAdd(b0, Lit(4)) ELSE b0
        b2 == IF d.domain THEN FAdd(b1, Lit(4)) ELSE b1
        b3 == IF d.keyword THEN FAdd(b2, Lit(6)) ELSE b2
        b4 == IF d.offshore THEN FAdd(b3, Lit(3)) ELSE b3
        b5 == IF d.suspicious > 0
              THEN FAdd(b4, FMul(IF d.suspicious < 3 THEN d.suspicious ELSE 3, Lit(2)))
              ELSE b4
        b6 == IF d.reference THEN FAdd(b5, Lit(3)) ELSE b5
    IN  FMin(Lit(20), b6)

(* process() lines 92-133 for one document: the DocumentClassification it
   stores *)
classification(d) ==
    LET p0 == priority_score(d)
        unrounded == IF d.short THEN Lit(6)
                     ELSE IF d.unknown_language THEN FMax(Lit(0), FSub(p0, Lit(4)))
                     ELSE p0
    IN  CHOOSE c \in {[priority_score |-> Round2(FMin(Lit(20), FMax(Lit(0), priority))),
                       estimated_relevance |-> estimated_relevance(priority)]
                          : priority \in {unrounded}} : TRUE

InitClassify ==
    /\ \E d \in DocShapes :
          /\ d.short => d = [short |-> TRUE, doc_type |-> FALSE, domain |-> FALSE,
                             keyword |-> FALSE, offshore |-> FALSE, suspicious |-> 0,
                             reference |-> FALSE, unknown_language |-> TRUE]
          /\ classify = [ran |-> FALSE, doc |-> d]
    /\ monitor = NotCalled /\ inv_store = NotCalled /\ kb = NotCalled
    /\ IngestIdle
    /\ AnalysisIdle
    /\ PipelineIdle

ClassifyDocument ==
    /\ "doc" \in DOMAIN classify /\ ~classify.ran
    /\ classify' = [ran |-> TRUE, doc |-> classify.doc,
                    classification |-> classification(classify.doc)]
    /\ UNCHANGED <<pipeline_vars, ingest_vars, analysis_vars, monitor, inv_store, kb>>

NextClassify == ClassifyDocument

SpecClassify == InitClassify /\ [][NextClassify]_vars

(* ------------------------------------------------------------------ *)
(* Properties of classification                                        *)

(* the band of a stored priority *)
Band(p) ==
    IF FGe(p, Lit(16)) THEN "critical"
    ELSE IF FGe(p, Lit(12)) /\ ~FGe(p, Lit(16)) THEN "high"
    ELSE IF FGe(p, Lit(8)) /\ ~FGe(p, Lit(12)) THEN "medium"
    ELSE "low"

(* C26: the stored priority p is within [0, 1] and rounded to two decimals,
   and the estimated relevance is the band of p: critical from 0.8, high
   from 0.6, medium from 0.4, low below, whatever boosts and penalty apply *)
C26_PriorityBand ==
    classify.ran =>
        LET c == classify.classification IN
        /\ FGe(c.priority_score, Lit(0)) /\ FGe(Lit(20), c.priority_score)
        /\ c.priority_score = Round2(c.priority_score)
        /\ c.estimated_relevance = Band(c.priority_score)

----------------------------------------------------------------------------
(* core/memory/long_term.py and core/memory/consolidate.py: the knowledge-
   base files, written by every investigation thread that consolidates *)

PATTERNS_CAP == 500
PROFILES_CAP == 20
HISTORY_CAP == 100
STATE_PATTERNS_CAP == 20

PatternsFile == "patterns.json"
EntityProfilesFile == "entity_profiles.json"
InvestigationHistoryFile == "investigation_history.json"

KbFiles == {PatternsFile, EntityProfilesFile, InvestigationHistoryFile}

(* the entity every modelled STM item with an entity is about *)
EntityKey == "acme"

(* an entry a store call appends: who appended it and by which of its calls *)
KbEntry(investigation_id, n) == [investigation_id |-> investigation_id, n |-> n]

(* entries left by earlier investigations *)
OldEntries(n) == [k \in 1..n |-> KbEntry("old", k)]

(* _load_json: the parsed content of the file, read under the lock *)
load_json(files, name) == files[name]

(* store_pattern, lines 51-60, from the loaded data on *)
store_pattern(data, entry) == LastN(Append(data, entry), PATTERNS_CAP)

(* store_entity_profile, lines 77-86, from the loaded data on *)
store_entity_profile(data, key, entry) ==
    LET d1 == IF key \in DOMAIN data THEN data ELSE SetKey(data, key, <<>>)
    IN  SetKey(d1, key, LastN(Append(d1[key], entry), PROFILES_CAP))

(* append_investigation_history, lines 110-112, from the loaded data on *)
append_investigation_history(data, entry) == LastN(Append(data, entry), HISTORY_CAP)

(* the store calls of one consolidate_memories(investigation_id, state), in
   order: per important STM item a pattern and/or an entity profile, then
   the first 20 patterns of the state, then the history entry *)
StmKinds == {"pattern", "entity", "both"}

ItemCalls(kind) ==
    CASE kind = "pattern" -> <<PatternsFile>>
      [] kind = "entity"  -> <<EntityProfilesFile>>
      [] kind = "both"    -> <<PatternsFile, EntityProfilesFile>>

RECURSIVE StmCalls(_)
StmCalls(important) ==
    IF important = <<>> THEN <<>>
    ELSE ItemCalls(Head(important)) \o StmCalls(Tail(important))

consolidation_calls(important, patterns) ==
    StmCalls(important)
        \o [k \in 1..Min(patterns, STATE_PATTERNS_CAP) |-> PatternsFile]
        \o <<InvestigationHistoryFile>>

(* what a call saves, given what it loaded *)
Saved(name, data, entry) ==
    CASE name = PatternsFile -> store_pattern(data, entry)
      [] name = EntityProfilesFile -> store_entity_profile(data, EntityKey, entry)
      [] name = InvestigationHistoryFile -> append_investigation_history(data, entry)

(* a thread that has not reached consolidation *)
NotConsolidating == [phase |-> "idle", calls |-> <<>>, pc |-> 1, data |-> <<>>]

(* the knowledge base as earlier investigations left it: empty, or one entry
   short of every cap *)
KbContent(full) ==
    IF full
    THEN (PatternsFile :> OldEntries(PATTERNS_CAP - 1))
            @@ (EntityProfilesFile :> SetKey(EmptyDict, EntityKey, OldEntries(PROFILES_CAP - 1)))
            @@ (InvestigationHistoryFile :> OldEntries(HISTORY_CAP - 1))
    ELSE (PatternsFile :> <<>>) @@ (EntityProfilesFile :> EmptyDict)
            @@ (InvestigationHistoryFile :> <<>>)

InitMemory ==
    /\ \E full \in BOOLEAN :
          kb = [ran |-> FALSE, files |-> KbContent(full), initial |-> KbContent(full),
                appended |-> [name \in KbFiles |-> <<>>],
                threads |-> [t \in Investigations |-> NotConsolidating]]
    /\ monitor = NotCalled /\ inv_store = NotCalled /\ classify = NotCalled
    /\ IngestIdle
    /\ AnalysisIdle
    /\ state = create_initial_state
    /\ settings = DefaultSettings
    /\ checkpoints = EmptyDict
    /\ run = Idle
    /\ final_state = NotReturned
    /\ gate_locals = NoGateLocals
    /\ calls = <<>>
    /\ memory = <<>>

(* the thread of an investigation enters consolidate_memories with its
   important STM items and the patterns of its final state *)
Consolidate(t) ==
    /\ kb.threads[t].phase = "idle"
    /\ \E important \in SeqsUpTo(StmKinds, MaxItems) :
       \E patterns \in 0..(MaxItems - Len(important)) :
          kb' = [kb EXCEPT !.ran = TRUE,
                           !.threads[t] = [phase |-> "load",
                                           calls |-> consolidation_calls(important, patterns),
                                           pc |-> 1, data |-> <<>>]]
    /\ UNCHANGED <<pipeline_vars, ingest_vars, analysis_vars, monitor, inv_store, classify>>

(* the first half of a store call: data = _load_json(path, default) *)
Load(t) ==
    LET th == kb.threads[t] IN
    /\ th.phase = "load"
    /\ kb' = [kb EXCEPT !.threads[t].phase = "save",
                        !.threads[t].data = load_json(kb.files, th.calls[th.pc])]
    /\ UNCHANGED <<pipeline_vars, ingest_vars, analysis_vars, monitor, inv_store, classify>>

(* the second half: the entry is appended to the loaded data, the result is
   cut to the cap and _save_json writes it over the file; the thread goes on
   to its next call or leaves consolidate_memories *)
Save(t) ==
    LET th    == kb.threads[t]
        name  == th.calls[th.pc]
        entry == KbEntry(t, th.pc)
    IN  /\ th.phase = "save"
        /\ kb' = [kb EXCEPT
                    !.files[name] = Saved(name, th.data, entry),
                    !.appended[name] = Append(@, entry),
                    !.threads[t] = [th EXCEPT
                                      !.phase = IF th.pc = Len(th.calls) THEN "done" ELSE "load",
                                      !.pc = @ + 1,
                                      !.data = <<>>]]
        /\ UNCHANGED <<pipeline_vars, ingest_vars, analysis_vars, monitor, inv_store, classify>>

NextMemory == \E t \in Investigations : Consolidate(t) \/ Load(t) \/ Save(t)

SpecMemory == InitMemory /\ [][NextMemory]_vars

(* ------------------------------------------------------------------ *)
(* Properties of the knowledge base                                    *)

(* the file with nothing lost: what it held, then every appended entry in
   the order of the saves, cut to the cap *)
Expected(name) ==
    CASE name = PatternsFile ->
            LastN(kb.initial[name] \o kb.appended[name], PATTERNS_CAP)
      [] name = InvestigationHistoryFile ->
            LastN(kb.initial[name] \o kb.appended[name], HISTORY_CAP)
      [] name = EntityProfilesFile ->
            LET old == IF EntityKey \in DOMAIN kb.initial[name]
                       THEN kb.initial[name][EntityKey] ELSE <<>>
            IN  IF kb.appended[name] = <<>> THEN kb.initial[name]
                ELSE SetKey(EmptyDict, EntityKey,
                            LastN(old \o kb.appended[name], PROFILES_CAP))

Consolidated == \A t \in Investigations : kb.threads[t].phase \in {"idle", "done"}

(* C29: when investigations consolidate concurrently, every pattern, entity
   profile and history entry either of them appended is in the knowledge-
   base file afterwards, up to the cap of the store: no append is lost *)
C29_NoLostAppend ==
    (kb.ran /\ Consolidated) => \A name \in KbFiles : kb.files[name] = Expected(name)

----------------------------------------------------------------------------
(* rag/indexer.py, rag/vector_store.py and agents/semantic_linker.py: the
   Chroma collection every investigation indexes into and queries *)

(* extracted_text.keys() of each investigation *)
InvestigationDocs(doc_ids) ==
    [inv \in Investigations |-> IF inv = "inv1" THEN doc_ids ELSE OtherDocIds]

(* index_documents_from_state: add_chunks(doc_id, chunks) stores the chunks
   of every document of the state with metadata {"doc_id": doc_id}; the
   collection is modelled by the doc_ids its chunks carry *)
index_documents_from_state(collection, doc_ids) == collection \cup Range(doc_ids)

(* doc_ids_filter=None *)
NoFilter == {}

(* Chroma returns the nearest chunks first *)
NearestFirst(results) ==
    \A k \in 1..(Len(results) - 1) : results[k].distance <= results[k + 1].distance

(* query_similar: the results a query can get, chunks of the collection
   matching the where clause, with their distances *)
query_similar(collection, doc_ids_filter) ==
    LET matching == IF doc_ids_filter = NoFilter THEN collection
                    ELSE collection \cap doc_ids_filter
    IN  {r \in SeqsUpTo({Hit(d, x) : d \in matching, x \in Distances \ {NoDistance}},
                        MaxNeighbours) : NearestFirst(r)}

InitVectorStore ==
    /\ \E doc_ids \in DocOrders :
          links = [ran |-> FALSE, collection |-> {},
                   docs |-> InvestigationDocs(doc_ids),
                   runs |-> [inv \in Investigations |-> 0],
                   semantic_links |-> [inv \in Investigations |-> <<>>]]
    /\ extract = NotCalled
    /\ IngestIdle
    /\ PipelineIdle
    /\ ServiceIdle

(* SemanticLinkerAgent.process of one investigation: it indexes the
   documents of its state, queries the collection once per document without
   a filter (lines 115-120) and links; shared is the number of entities the
   pairs of the state share.  Each investigation runs the stage once *)
LinkerStage(inv) ==
    /\ links.runs[inv] = 0
    /\ LET doc_ids    == links.docs[inv]
           collection == index_documents_from_state(links.collection, doc_ids)
       IN  \E shared \in {0, MIN_SHARED_ENTITIES} :
           \E hits \in [Range(doc_ids) -> query_similar(collection, NoFilter)] :
              links' = [links EXCEPT
                          !.ran = TRUE,
                          !.collection = collection,
                          !.runs[inv] = @ + 1,
                          !.semantic_links[inv] =
                              semantic_linker(@, doc_ids, hits, shared)]
    /\ UNCHANGED <<pipeline_vars, ingest_vars, service_vars, extract>>

NextVectorStore == \E inv \in Investigations : LinkerStage(inv)

SpecVectorStore == InitVectorStore /\ [][NextVectorStore]_vars

(* ------------------------------------------------------------------ *)
(* Properties of the shared collection                                 *)

(* C30: both endpoints of every semantic link produced for an investigation
   are documents of that investigation's own state: chunks another
   investigation indexed into the shared collection never become an
   endpoint of a link of this one *)
C30_OwnDocumentsOnly ==
    links.ran =>
        \A inv \in Investigations :
            \A k \in 1..Len(links.semantic_links[inv]) :
                LinkEnds(links.semantic_links[inv][k]) \subseteq Range(links.docs[inv])

====
